---- MODULE Spec2Model ----
(***************************************************************************)
(* Abalone (open_spiel/games/abalone): the move codec, the move validator, *)
(* the move executor and the game state, modelled cell by cell on the 9x9  *)
(* grid of abalone.h.                                                      *)
(*                                                                         *)
(* Returns() is kept in units of marble_reward (tenths): the code returns  *)
(* +1.0/-1.0 or marble_balance * 0.1f, and the float product equals 1.0    *)
(* exactly when marble_balance = 10, so "== 1.0" is "= kWin" here.         *)
(***************************************************************************)
EXTENDS Integers, Sequences, FiniteSets, TLC

(***************************************************************************)
(* Program constants (abalone.h)                                           *)
(***************************************************************************)
kNumPlayers == 2
kNumRows == 9
kNumCols == 9
kNumCells == kNumRows * kNumCols
kNumActionsPerDirection == 5
Direction_First == 0
Direction_Last == 6
Direction_Invalid == -1
kNumActionsPerCell == Direction_Last * kNumActionsPerDirection
kHistoryMax == 200
kMarblesToWin == 6
kInitialMarbles == 14

\* CellState
kInvalid == -2
kEmpty == -1
kPlayer1 == 0
kPlayer2 == 1

\* Player ids of the host framework, as used by abalone.h
kInvalidPlayer == -3
kTerminalPlayerId == -4

\* Returns() scale: 1.0 in units of marble_reward = 0.1
kWin == 10

NumDistinctActions == kNumCells * kNumActionsPerCell
ActionIds == 0 .. (NumDistinctActions - 1)

(***************************************************************************)
(* Tables                                                                  *)
(***************************************************************************)
Coord(r, c) == [m_row |-> r, m_column |-> c]

\* Offsets[dir], 0-based direction -> 1-based tuple index
OffsetsTable ==
  << Coord(0, 1), Coord(-1, 1), Coord(-1, 0), Coord(0, -1), Coord(1, -1), Coord(1, 0) >>
Offsets(dir) == OffsetsTable[dir + 1]

SistersTable ==
  << <<1, 2>>, <<2, 3>>, <<3, 4>>, <<4, 5>>, <<5, 0>>, <<0, 1>> >>
Sisters(dir) == SistersTable[dir + 1]

VALID_BOARD ==
  << -2, -2, -2, -2, -1, -1, -1, -1, -1,
     -2, -2, -2, -1, -1, -1, -1, -1, -1,
     -2, -2, -1, -1, -1, -1, -1, -1, -1,
     -2, -1, -1, -1, -1, -1, -1, -1, -1,
     -1, -1, -1, -1, -1, -1, -1, -1, -1,
     -1, -1, -1, -1, -1, -1, -1, -1, -2,
     -1, -1, -1, -1, -1, -1, -1, -2, -2,
     -1, -1, -1, -1, -1, -1, -2, -2, -2,
     -1, -1, -1, -1, -1, -2, -2, -2, -2 >>

ABALONE_INIT_CLASSIC ==
  << -2, -2, -2, -2,  1,  1,  1,  1,  1,
     -2, -2, -2,  1,  1,  1,  1,  1,  1,
     -2, -2, -1, -1,  1,  1,  1, -1, -1,
     -2, -1, -1, -1, -1, -1, -1, -1, -1,
     -1, -1, -1, -1, -1, -1, -1, -1, -1,
     -1, -1, -1, -1, -1, -1, -1, -1, -2,
     -1, -1,  0,  0,  0, -1, -1, -2, -2,
      0,  0,  0,  0,  0,  0, -2, -2, -2,
      0,  0,  0,  0,  0, -2, -2, -2, -2 >>

ABALONE_INIT_BELGIAN_DAISY ==
  << -2, -2, -2, -2,  1,  1, -1,  0,  0,
     -2, -2, -2,  1,  1,  1,  0,  0,  0,
     -2, -2, -1,  1,  1, -1,  0,  0, -1,
     -2, -1, -1, -1, -1, -1, -1, -1, -1,
     -1, -1, -1, -1, -1, -1, -1, -1, -1,
     -1, -1, -1, -1, -1, -1, -1, -1, -2,
     -1,  0,  0, -1,  1,  1, -1, -2, -2,
      0,  0,  0,  1,  1,  1, -2, -2, -2,
      0,  0, -1,  1,  1, -2, -2, -2, -2 >>

\* board_ is the array std::array<CellState, kNumCells>, indexed 0..80
\* mutant: the board is filled with kEmpty and the layout is not copied
BoardOf_AllEmpty(table) == [i \in 0 .. (kNumCells - 1) |-> kEmpty]

BoardOf(table) == [i \in 0 .. (kNumCells - 1) |-> table[i + 1]]

(***************************************************************************)
(* BoardModel                                                              *)
(***************************************************************************)
BoardAt(b, row, column) == b[row * kNumCols + column]
SetBoard(b, row, column, state) == [b EXCEPT ![row * kNumCols + column] = state]

InGrid(r, c) == r >= 0 /\ r < kNumRows /\ c >= 0 /\ c < kNumCols

Abs(x) == IF x < 0 THEN -x ELSE x
Max(x, y) == IF x >= y THEN x ELSE y
Min(x, y) == IF x <= y THEN x ELSE y
\* std::max(std::min(v, 1), -1)
Clamp1(v) == Max(Min(v, 1), -1)

(***************************************************************************)
(* MoveCodec                                                               *)
(***************************************************************************)
MkMove(dir, sr, sc, er, ec) ==
  [m_direction |-> dir, m_start |-> Coord(sr, sc), m_end |-> Coord(er, ec)]

\* mutant: the "back" slides run along direction+4, the reverse of direction+1
ActionToMove_EitherEnd(moveId) ==
  LET moveType == moveId % kNumActionsPerDirection
      rem1 == moveId \div kNumActionsPerDirection
      dir == rem1 % Direction_Last
      rem2 == rem1 \div Direction_Last
      column == rem2 % kNumCols
      row == rem2 \div kNumCols
      offset == Offsets(dir)
      slideF == Offsets((dir + 1) % Direction_Last)
      slideB == Offsets((dir + 4) % Direction_Last)
  IN  CASE moveType = 0 ->
             MkMove(dir, row, column, row + offset.m_row, column + offset.m_column)
        [] moveType = 1 ->
             MkMove(dir, row, column, row + slideF.m_row, column + slideF.m_column)
        [] moveType = 2 ->
             MkMove(dir, row, column, row + slideB.m_row, column + slideB.m_column)
        [] moveType = 3 ->
             MkMove(dir, row, column, row + 2 * slideF.m_row, column + 2 * slideF.m_column)
        [] moveType = 4 ->
             MkMove(dir, row, column, row + 2 * slideB.m_row, column + 2 * slideB.m_column)

ActionToMove(moveId) ==
  LET moveType == moveId % kNumActionsPerDirection
      rem1 == moveId \div kNumActionsPerDirection
      dir == rem1 % Direction_Last
      rem2 == rem1 \div Direction_Last
      column == rem2 % kNumCols
      row == rem2 \div kNumCols
      offset == Offsets(dir)
      slideF == Offsets((dir + 1) % Direction_Last)
      slideB == Offsets((dir + 2) % Direction_Last)
  IN  CASE moveType = 0 ->
             MkMove(dir, row, column, row + offset.m_row, column + offset.m_column)
        [] moveType = 1 ->
             MkMove(dir, row, column, row + slideF.m_row, column + slideF.m_column)
        [] moveType = 2 ->
             MkMove(dir, row, column, row + slideB.m_row, column + slideB.m_column)
        [] moveType = 3 ->
             MkMove(dir, row, column, row + 2 * slideF.m_row, column + 2 * slideF.m_column)
        [] moveType = 4 ->
             MkMove(dir, row, column, row + 2 * slideB.m_row, column + 2 * slideB.m_column)

\* mutant: the two-step slide tests are missing
MoveToAction_NoLongSlide(move) ==
  LET base == ((move.m_start.m_row * kNumCols + move.m_start.m_column) * Direction_Last
                 + move.m_direction) * 5
      offset == Offsets(move.m_direction)
      slideF == Offsets(Sisters(move.m_direction)[1])
      slideB == Offsets(Sisters(move.m_direction)[2])
      sr == move.m_start.m_row
      sc == move.m_start.m_column
      er == move.m_end.m_row
      ec == move.m_end.m_column
  IN  IF sr + offset.m_row # er \/ sc + offset.m_column # ec
      THEN IF sr + slideF.m_row = er /\ sc + slideF.m_column = ec THEN base + 1
           ELSE IF sr + slideB.m_row = er /\ sc + slideB.m_column = ec THEN base + 2
           ELSE base
      ELSE base

MoveToAction(move) ==
  LET base == ((move.m_start.m_row * kNumCols + move.m_start.m_column) * Direction_Last
                 + move.m_direction) * 5
      offset == Offsets(move.m_direction)
      slideF == Offsets(Sisters(move.m_direction)[1])
      slideB == Offsets(Sisters(move.m_direction)[2])
      sr == move.m_start.m_row
      sc == move.m_start.m_column
      er == move.m_end.m_row
      ec == move.m_end.m_column
  IN  IF sr + offset.m_row # er \/ sc + offset.m_column # ec
      THEN IF sr + slideF.m_row = er /\ sc + slideF.m_column = ec THEN base + 1
           ELSE IF sr + slideB.m_row = er /\ sc + slideB.m_column = ec THEN base + 2
           ELSE IF sr + slideF.m_row + slideF.m_row = er
                   /\ sc + slideF.m_column + slideF.m_column = ec THEN base + 3
           ELSE IF sr + slideB.m_row + slideB.m_row = er
                   /\ sc + slideB.m_column + slideB.m_column = ec THEN base + 4
           ELSE base
      ELSE base

(***************************************************************************)
(* GameState queries.  A state st is a record of the four fields of        *)
(* AbaloneState: board_, current_player_, outcome_, num_moves_.            *)
(***************************************************************************)
MkState(b, cp, out, n) ==
  [board_ |-> b, current_player_ |-> cp, outcome_ |-> out, num_moves_ |-> n]

\* mutant: the move ceiling is not tested
IsTerminal_NoCeiling(st) == st.outcome_ # kInvalidPlayer

IsTerminal(st) == st.outcome_ # kInvalidPlayer \/ st.num_moves_ >= kHistoryMax

\* mutant: the stored player is reported in terminal states too
CurrentPlayer_Stored(st) == st.current_player_

CurrentPlayer(st) == IF IsTerminal(st) THEN kTerminalPlayerId ELSE st.current_player_

\* PlayerToState ends in SpielFatalError for any id but kInvalidPlayer, 0, 1
PlayerToStateAborts(player) == player \notin {kInvalidPlayer, 0, 1}
PlayerToState(player) ==
  CASE player = kInvalidPlayer -> kInvalid
    [] player = 0 -> kPlayer1
    [] player = 1 -> kPlayer2

BallCount(b, cell) == Cardinality({i \in DOMAIN b : b[i] = cell})

\* mutant: the stored outcome is ignored, the marble counts decide
Returns_CountsOnly(st) ==
  LET ballCount0 == BallCount(st.board_, kPlayer1)
      ballCount1 == BallCount(st.board_, kPlayer2)
      marble_balance == (kInitialMarbles - ballCount1) - (kInitialMarbles - ballCount0)
  IN  IF ballCount0 <= kInitialMarbles - kMarblesToWin THEN <<-kWin, kWin>>
      ELSE IF ballCount1 <= kInitialMarbles - kMarblesToWin THEN <<kWin, -kWin>>
      ELSE <<marble_balance, -marble_balance>>

\* mutant: the second entry is not negated
Returns_NotMirrored(st) ==
  IF st.outcome_ = 0 THEN <<kWin, -kWin>>
  ELSE IF st.outcome_ = 1 THEN <<-kWin, kWin>>
  ELSE LET ballCount0 == BallCount(st.board_, kPlayer1)
           ballCount1 == BallCount(st.board_, kPlayer2)
           marble_balance == (kInitialMarbles - ballCount1) - (kInitialMarbles - ballCount0)
       IN  IF ballCount0 <= kInitialMarbles - kMarblesToWin THEN <<-kWin, kWin>>
           ELSE IF ballCount1 <= kInitialMarbles - kMarblesToWin THEN <<kWin, -kWin>>
           ELSE <<marble_balance, marble_balance>>

\* mutant: without a winner the score is {0.0, 0.0}
Returns_NoShaping(st) ==
  IF st.outcome_ = 0 THEN <<kWin, -kWin>>
  ELSE IF st.outcome_ = 1 THEN <<-kWin, kWin>>
  ELSE LET ballCount0 == BallCount(st.board_, kPlayer1)
           ballCount1 == BallCount(st.board_, kPlayer2)
       IN  IF ballCount0 <= kInitialMarbles - kMarblesToWin THEN <<-kWin, kWin>>
           ELSE IF ballCount1 <= kInitialMarbles - kMarblesToWin THEN <<kWin, -kWin>>
           ELSE <<0, 0>>

Returns(st) ==
  IF st.outcome_ = 0 THEN <<kWin, -kWin>>
  ELSE IF st.outcome_ = 1 THEN <<-kWin, kWin>>
  ELSE LET ballCount0 == BallCount(st.board_, kPlayer1)
           ballCount1 == BallCount(st.board_, kPlayer2)
           marble_balance == (kInitialMarbles - ballCount1) - (kInitialMarbles - ballCount0)
       IN  IF ballCount0 <= kInitialMarbles - kMarblesToWin THEN <<-kWin, kWin>>
           ELSE IF ballCount1 <= kInitialMarbles - kMarblesToWin THEN <<kWin, -kWin>>
           ELSE <<marble_balance, -marble_balance>>

(***************************************************************************)
(* MoveValidator                                                           *)
(***************************************************************************)
RECURSIVE SlideWalk(_, _, _, _, _, _, _, _, _)
\* the for loop of _IsValidSlide: i-th cell of the line at (r, c)
SlideWalk(b, player, r, c, slide_line, slide_column, direction, i, size) ==
  IF i >= size THEN TRUE
  ELSE IF BoardAt(b, r, c) # player THEN FALSE
  ELSE LET destination_row == r + direction.m_row
           destination_column == c + direction.m_column
       IN  IF destination_row < 0 \/ destination_row >= kNumRows THEN FALSE
           ELSE IF destination_column < 0 \/ destination_column >= kNumCols THEN FALSE
           ELSE IF BoardAt(b, destination_row, destination_column) # kEmpty THEN FALSE
           ELSE SlideWalk(b, player, r + slide_line, c + slide_column,
                          slide_line, slide_column, direction, i + 1, size)

SlideValidDirection(slide_line, slide_column) ==
  \E dir \in Direction_First .. (Direction_Last - 1) :
     Offsets(dir).m_row = slide_line /\ Offsets(dir).m_column = slide_column

\* mutant: the walk stops one cell short of the line's end
IsValidSlide_ShortWalk(move, st) ==
  LET b == st.board_
      player == BoardAt(b, move.m_start.m_row, move.m_start.m_column)
      rSize == Abs(move.m_end.m_row - move.m_start.m_row) + 1
      cSize == Abs(move.m_end.m_column - move.m_start.m_column) + 1
      slide_line == Clamp1(move.m_end.m_row - move.m_start.m_row)
      slide_column == Clamp1(move.m_end.m_column - move.m_start.m_column)
  IN  IF player = kEmpty \/ player = kInvalid THEN FALSE
      ELSE IF rSize > 3 THEN FALSE
      ELSE IF cSize > 3 THEN FALSE
      ELSE IF ~SlideValidDirection(slide_line, slide_column) THEN FALSE
      ELSE SlideWalk(b, player, move.m_start.m_row, move.m_start.m_column,
                     slide_line, slide_column, Offsets(move.m_direction),
                     0, Max(cSize, rSize) - 1)

\* mutant: the bounding box admits spans of two cells only
IsValidSlide_NarrowBox(move, st) ==
  LET b == st.board_
      player == BoardAt(b, move.m_start.m_row, move.m_start.m_column)
      rSize == Abs(move.m_end.m_row - move.m_start.m_row) + 1
      cSize == Abs(move.m_end.m_column - move.m_start.m_column) + 1
      slide_line == Clamp1(move.m_end.m_row - move.m_start.m_row)
      slide_column == Clamp1(move.m_end.m_column - move.m_start.m_column)
  IN  IF player = kEmpty \/ player = kInvalid THEN FALSE
      ELSE IF rSize > 2 THEN FALSE
      ELSE IF cSize > 2 THEN FALSE
      ELSE IF ~SlideValidDirection(slide_line, slide_column) THEN FALSE
      ELSE SlideWalk(b, player, move.m_start.m_row, move.m_start.m_column,
                     slide_line, slide_column, Offsets(move.m_direction),
                     0, Max(cSize, rSize))

IsValidSlide(move, st) ==
  LET b == st.board_
      player == BoardAt(b, move.m_start.m_row, move.m_start.m_column)
      rSize == Abs(move.m_end.m_row - move.m_start.m_row) + 1
      cSize == Abs(move.m_end.m_column - move.m_start.m_column) + 1
      slide_line == Clamp1(move.m_end.m_row - move.m_start.m_row)
      slide_column == Clamp1(move.m_end.m_column - move.m_start.m_column)
  IN  IF player = kEmpty \/ player = kInvalid THEN FALSE
      ELSE IF rSize > 3 THEN FALSE
      ELSE IF cSize > 3 THEN FALSE
      ELSE IF ~SlideValidDirection(slide_line, slide_column) THEN FALSE
      ELSE SlideWalk(b, player, move.m_start.m_row, move.m_start.m_column,
                     slide_line, slide_column, Offsets(move.m_direction),
                     0, Max(cSize, rSize))

\* line_content[i], i in 0..5, of the in-row check
LineContent(b, move, i) ==
  LET r == move.m_start.m_row + i * (move.m_end.m_row - move.m_start.m_row)
      c == move.m_start.m_column + i * (move.m_end.m_column - move.m_start.m_column)
  IN  IF InGrid(r, c) THEN BoardAt(b, r, c) ELSE kInvalid

\* mutant: the 2VS1 test accepts an opposing marble behind the pushed one
IsValidInRow_TwoVsTwo(move, st) ==
  LET b == st.board_
      player == BoardAt(b, move.m_start.m_row, move.m_start.m_column)
      opponent == IF player = kPlayer1 THEN kPlayer2 ELSE kPlayer1
      l1 == LineContent(b, move, 1)
      l2 == LineContent(b, move, 2)
      l3 == LineContent(b, move, 3)
      l4 == LineContent(b, move, 4)
      l5 == LineContent(b, move, 5)
  IN  IF l1 = kEmpty THEN TRUE
      ELSE IF l1 = player /\ l2 = kEmpty THEN TRUE
      ELSE IF l1 = player /\ l2 = opponent /\ l3 # player THEN TRUE
      ELSE IF l1 = player /\ l2 = player /\ l3 = kEmpty THEN TRUE
      ELSE IF l1 = player /\ l2 = player /\ l3 = opponent
                /\ (l4 = kInvalid \/ l4 = kEmpty) THEN TRUE
      ELSE IF l1 = player /\ l2 = player /\ l3 = opponent /\ l4 = opponent
                /\ (l5 = kInvalid \/ l5 = kEmpty) THEN TRUE
      ELSE FALSE

\* mutant: a column of three own marbles moves whatever lies ahead of it
IsValidInRow_NoThirdCell(move, st) ==
  LET b == st.board_
      player == BoardAt(b, move.m_start.m_row, move.m_start.m_column)
      opponent == IF player = kPlayer1 THEN kPlayer2 ELSE kPlayer1
      l1 == LineContent(b, move, 1)
      l2 == LineContent(b, move, 2)
      l3 == LineContent(b, move, 3)
  IN  IF l1 = kEmpty THEN TRUE
      ELSE IF l1 = player /\ l2 = kEmpty THEN TRUE
      ELSE IF l1 = player /\ l2 = opponent /\ (l3 = kInvalid \/ l3 = kEmpty) THEN TRUE
      ELSE IF l1 = player /\ l2 = player THEN TRUE
      ELSE FALSE

\* mutant: a lone marble may step onto a cell that is not part of the board
IsValidInRow_OwnOverRim(move, st) ==
  LET b == st.board_
      player == BoardAt(b, move.m_start.m_row, move.m_start.m_column)
      opponent == IF player = kPlayer1 THEN kPlayer2 ELSE kPlayer1
      l1 == LineContent(b, move, 1)
      l2 == LineContent(b, move, 2)
      l3 == LineContent(b, move, 3)
      l4 == LineContent(b, move, 4)
      l5 == LineContent(b, move, 5)
  IN  IF l1 = kEmpty \/ l1 = kInvalid THEN TRUE
      ELSE IF l1 = player /\ l2 = kEmpty THEN TRUE
      ELSE IF l1 = player /\ l2 = opponent /\ (l3 = kInvalid \/ l3 = kEmpty) THEN TRUE
      ELSE IF l1 = player /\ l2 = player /\ l3 = kEmpty THEN TRUE
      ELSE IF l1 = player /\ l2 = player /\ l3 = opponent
                /\ (l4 = kInvalid \/ l4 = kEmpty) THEN TRUE
      ELSE IF l1 = player /\ l2 = player /\ l3 = opponent /\ l4 = opponent
                /\ (l5 = kInvalid \/ l5 = kEmpty) THEN TRUE
      ELSE FALSE

IsValidInRow(move, st) ==
  LET b == st.board_
      player == BoardAt(b, move.m_start.m_row, move.m_start.m_column)
      opponent == IF player = kPlayer1 THEN kPlayer2 ELSE kPlayer1
      l1 == LineContent(b, move, 1)
      l2 == LineContent(b, move, 2)
      l3 == LineContent(b, move, 3)
      l4 == LineContent(b, move, 4)
      l5 == LineContent(b, move, 5)
  IN  IF l1 = kEmpty THEN TRUE
      ELSE IF l1 = player /\ l2 = kEmpty THEN TRUE
      ELSE IF l1 = player /\ l2 = opponent /\ (l3 = kInvalid \/ l3 = kEmpty) THEN TRUE
      ELSE IF l1 = player /\ l2 = player /\ l3 = kEmpty THEN TRUE
      ELSE IF l1 = player /\ l2 = player /\ l3 = opponent
                /\ (l4 = kInvalid \/ l4 = kEmpty) THEN TRUE
      ELSE IF l1 = player /\ l2 = player /\ l3 = opponent /\ l4 = opponent
                /\ (l5 = kInvalid \/ l5 = kEmpty) THEN TRUE
      ELSE FALSE

MoveInGrid(move) ==
  /\ InGrid(move.m_start.m_row, move.m_start.m_column)
  /\ InGrid(move.m_end.m_row, move.m_end.m_column)

IsInRowMove(move) ==
  /\ Offsets(move.m_direction).m_row = move.m_end.m_row - move.m_start.m_row
  /\ Offsets(move.m_direction).m_column = move.m_end.m_column - move.m_start.m_column

\* IsValid reaches PlayerToState(CurrentPlayer()) once both endpoints are in
\* the grid; in a terminal state that call is fatal.
IsValidAborts(move, st) ==
  MoveInGrid(move) /\ PlayerToStateAborts(CurrentPlayer(st))

\* mutant: the start cell is only tested for a marble, not for the mover's
IsValid_AnyMarble(move, st) ==
  IF ~MoveInGrid(move) THEN FALSE
  ELSE IF BoardAt(st.board_, move.m_start.m_row, move.m_start.m_column) = kInvalid THEN FALSE
  ELSE IF BoardAt(st.board_, move.m_start.m_row, move.m_start.m_column) = kEmpty THEN FALSE
  ELSE IF ~IsInRowMove(move) THEN IsValidSlide(move, st)
  ELSE IsValidInRow(move, st)

IsValid(move, st) ==
  IF ~MoveInGrid(move) THEN FALSE
  ELSE IF BoardAt(st.board_, move.m_start.m_row, move.m_start.m_column)
            # PlayerToState(CurrentPlayer(st)) THEN FALSE
  ELSE IF ~IsInRowMove(move) THEN IsValidSlide(move, st)
  ELSE IsValidInRow(move, st)

(***************************************************************************)
(* MoveExecutor                                                            *)
(***************************************************************************)
RECURSIVE ParallelLoop_ShortLoop(_, _, _, _, _, _, _, _, _, _)
\* mutant: the loop runs while i < size
ParallelLoop_ShortLoop(b, player, r, c, slide_row, slide_column, dr, dc, i, size) ==
  IF i >= size THEN b
  ELSE IF ~InGrid(r, c) THEN b
  ELSE IF BoardAt(b, r, c) # player THEN b
  ELSE IF ~InGrid(r + dr, c + dc) THEN b
  ELSE IF BoardAt(b, r + dr, c + dc) # kEmpty THEN b
  ELSE ParallelLoop_ShortLoop(SetBoard(SetBoard(b, r + dr, c + dc, player), r, c, kEmpty),
                              player, r + slide_row, c + slide_column,
                              slide_row, slide_column, dr, dc, i + 1, size)

RECURSIVE ParallelLoop(_, _, _, _, _, _, _, _, _, _)
ParallelLoop(b, player, r, c, slide_row, slide_column, dr, dc, i, size) ==
  IF i > size THEN b
  ELSE IF ~InGrid(r, c) THEN b
  ELSE IF BoardAt(b, r, c) # player THEN b
  ELSE IF ~InGrid(r + dr, c + dc) THEN b
  ELSE IF BoardAt(b, r + dr, c + dc) # kEmpty THEN b
  ELSE ParallelLoop(SetBoard(SetBoard(b, r + dr, c + dc, player), r, c, kEmpty),
                    player, r + slide_row, c + slide_column,
                    slide_row, slide_column, dr, dc, i + 1, size)

ApplyParallelMove(b, move, dr, dc) ==
  LET slide_row == Clamp1(move.m_end.m_row - move.m_start.m_row)
      slide_column == Clamp1(move.m_end.m_column - move.m_start.m_column)
      rSize == Abs(move.m_end.m_row - move.m_start.m_row)
      cSize == Abs(move.m_end.m_column - move.m_start.m_column)
  IN  ParallelLoop(b, BoardAt(b, move.m_start.m_row, move.m_start.m_column),
                   move.m_start.m_row, move.m_start.m_column,
                   slide_row, slide_column, dr, dc, 0, Max(rSize, cSize))

RECURSIVE SingleLoop_OverInvalid(_, _, _, _, _, _)
\* mutant: the loop does not stop at an Invalid cell
SingleLoop_OverInvalid(b, r, c, nextId, dr, dc) ==
  IF ~InGrid(r, c) THEN b
  ELSE LET currentId == BoardAt(b, r, c)
       IN  IF currentId = kEmpty THEN SetBoard(b, r, c, nextId)
           ELSE SingleLoop_OverInvalid(SetBoard(b, r, c, nextId), r + dr, c + dc,
                                       currentId, dr, dc)

RECURSIVE SingleLoop_DropLast(_, _, _, _, _, _)
\* mutant: the loop stops at an Empty cell before writing it
SingleLoop_DropLast(b, r, c, nextId, dr, dc) ==
  IF ~InGrid(r, c) THEN b
  ELSE LET currentId == BoardAt(b, r, c)
       IN  IF currentId = kInvalid \/ currentId = kEmpty THEN b
           ELSE SingleLoop_DropLast(SetBoard(b, r, c, nextId), r + dr, c + dc,
                                    currentId, dr, dc)

RECURSIVE SingleLoop(_, _, _, _, _, _)
SingleLoop(b, r, c, nextId, dr, dc) ==
  IF ~InGrid(r, c) THEN b
  ELSE LET currentId == BoardAt(b, r, c)
       IN  IF currentId = kInvalid THEN b
           ELSE IF currentId = kEmpty THEN SetBoard(b, r, c, nextId)
           ELSE SingleLoop(SetBoard(b, r, c, nextId), r + dr, c + dc, currentId, dr, dc)

\* mutant: the start cell is not cleared, its marble is carried from the start
ApplySingleMove_KeepStart(b, move, dr, dc) ==
  SingleLoop(b, move.m_start.m_row, move.m_start.m_column,
             BoardAt(b, move.m_start.m_row, move.m_start.m_column), dr, dc)

ApplySingleMove(b, move, dr, dc) ==
  SingleLoop(b, move.m_start.m_row, move.m_start.m_column, kEmpty, dr, dc)

Apply(move, b) ==
  LET offset == Offsets(move.m_direction)
  IN  IF ~IsInRowMove(move)
      THEN ApplyParallelMove(b, move, offset.m_row, offset.m_column)
      ELSE ApplySingleMove(b, move, offset.m_row, offset.m_column)

(***************************************************************************)
(* GameState operations, as functions of the state before the call         *)
(***************************************************************************)
\* mutant: the move is applied and no winner is looked for
AfterApply_NoWinnerTest(st, move) == [st EXCEPT !.board_ = Apply(move, st.board_)]

\* mutant: the winner test reads the opponent's return
AfterApply_OpponentReturn(st, move) ==
  LET applied == [st EXCEPT !.board_ = Apply(move, st.board_)]
  IN  IF Returns(applied)[(1 - st.current_player_) + 1] = kWin
      THEN [applied EXCEPT !.outcome_ = st.current_player_]
      ELSE applied

\* the state after move.Apply(*this) and the winner test, before "update step"
AfterApply(st, move) ==
  LET applied == [st EXCEPT !.board_ = Apply(move, st.board_)]
  IN  IF Returns(applied)[st.current_player_ + 1] = kWin
      THEN [applied EXCEPT !.outcome_ = st.current_player_]
      ELSE applied

\* mutant: the player to move is not exchanged
UpdateStep_NoToggle(st) == [st EXCEPT !.num_moves_ = st.num_moves_ + 1]

\* mutant: the move counter is not incremented
UpdateStep_NoCount(st) ==
  [st EXCEPT !.current_player_ = 1 - st.current_player_]

UpdateStep(st) ==
  [st EXCEPT !.current_player_ = 1 - st.current_player_,
             !.num_moves_ = st.num_moves_ + 1]

\* mutant: the forfeit names the submitting player as the winner
Forfeit_ToMover(st) == [st EXCEPT !.outcome_ = st.current_player_]

Forfeit(st) == [st EXCEPT !.outcome_ = 1 - st.current_player_]

\* mutant: the move is applied before its validity is tested
DoApplyActionResult_ApplyFirst(st, action) ==
  LET move == ActionToMove(action)
  IN  IF IsValid(move, st) THEN UpdateStep(AfterApply(st, move))
      ELSE Forfeit([st EXCEPT !.board_ = Apply(move, st.board_)])

\* DoApplyAction on a call that does not abort
DoApplyActionResult(st, action) ==
  LET move == ActionToMove(action)
  IN  IF IsValid(move, st) THEN UpdateStep(AfterApply(st, move)) ELSE Forfeit(st)

DoApplyActionAborts(st, action) == IsValidAborts(ActionToMove(action), st)

IdSeq == [i \in 1 .. NumDistinctActions |-> i - 1]
ValidAction(st, i) == IsValid(ActionToMove(i), st)

\* mutant: the loop stops at kNumCells * kNumActionsPerDirection
LegalActions_ShortLoop(st) ==
  IF IsTerminal(st) THEN << >>
  ELSE SelectSeq(SubSeq(IdSeq, 1, kNumCells * kNumActionsPerDirection),
                 LAMBDA i : ValidAction(st, i))

LegalActions(st) ==
  IF IsTerminal(st) THEN << >>
  ELSE SelectSeq(IdSeq, LAMBDA i : ValidAction(st, i))

(***************************************************************************)
(* State                                                                   *)
(***************************************************************************)
VARIABLES
  board_,           \* AbaloneState::board_
  current_player_,  \* AbaloneState::current_player_
  outcome_,         \* AbaloneState::outcome_
  num_moves_,       \* AbaloneState::num_moves_
  fatal,            \* SpielFatalError was raised: the process is gone
  pre,              \* history: the state before the last DoApplyAction call
                    \* and the branch that call took
  input,            \* the action id a probe hands to the function under test
  decoded,          \* codec probe: ActionToMove(input)
  encoded,          \* codec probe: MoveToAction(decoded)
  clone             \* the object a Clone() call returned, if one was made

vars == << board_, current_player_, outcome_, num_moves_, fatal, pre,
           input, decoded, encoded, clone >>

This == MkState(board_, current_player_, outcome_, num_moves_)

NoMove == MkMove(Direction_Invalid, -1, -1, -1, -1)
NoAction == 0 - 1

\* mutant: the copy's board_ is the storage of the object it was copied from
CloneOf_SharedBoard(st) ==
  [made |-> TRUE, shares |-> TRUE, last |-> "cloned", st |-> st, other |-> st]

\* Clone(): new AbaloneState(*this) with the default copy constructor.  st
\* holds the copy's fields; shares tells whether its board_ is the storage
\* of the original (board_ is a std::array member, copied by value).  last
\* and other are history: the object the last call was made on, and the
\* state of the other object before that call.
CloneOf(st) ==
  [made |-> TRUE, shares |-> FALSE, last |-> "cloned", st |-> st, other |-> st]

\* no Clone() call was made
NoClone ==
  [made |-> FALSE, shares |-> FALSE, last |-> "none",
   st |-> MkState(BoardOf(VALID_BOARD), 0, kInvalidPlayer, 0),
   other |-> MkState(BoardOf(VALID_BOARD), 0, kInvalidPlayer, 0)]


(***************************************************************************)
(* Bounds                                                                  *)
(***************************************************************************)
\* plies of legal play explored: every legal action of the opening
\* position, the steps of ShuttleActions after it
MaxPlies == 1
\* cells written after the start cell of an in-row probe
PatLen == 5
\* calls let through at or past the move ceiling
MaxOverrun == 1
\* cells of a slide probe that differ from the accepted window (the line
\* held by the mover, its translation Empty)
MaxOdd == 2

(***************************************************************************)
(* DoApplyAction: the whole handler.  An aborting call leaves the state    *)
(* untouched and ends the process.                                         *)
(***************************************************************************)
Branch(st, action) ==
  IF DoApplyActionAborts(st, action) THEN "fatal"
  ELSE IF IsValid(ActionToMove(action), st) THEN "applied"
  ELSE "forfeit"

DoApplyAction(action) ==
  /\ ~fatal
  /\ pre' = [st |-> This, branch |-> Branch(This, action)]
  /\ IF DoApplyActionAborts(This, action)
     THEN /\ fatal' = TRUE
          /\ UNCHANGED << board_, current_player_, outcome_, num_moves_ >>
     ELSE \E post \in {DoApplyActionResult(This, action)} :
              /\ board_' = post.board_
              /\ current_player_' = post.current_player_
              /\ outcome_' = post.outcome_
              /\ num_moves_' = post.num_moves_
              /\ fatal' = FALSE

(***************************************************************************)
(* Spec: the game from the classic layout.  A running game is handed a     *)
(* legal action (while fewer than MaxPlies were played: any legal action   *)
(* of the opening position, a legal step of ShuttleActions after it) or    *)
(* one of the ids of ProbeInputs; a finished game is handed the ids of     *)
(* ProbeInputs.                                                            *)
(***************************************************************************)
\* 0: start on the Invalid cell i1; 1890: b1 RIGHT; 2185: a1 DOWN_RIGHT,
\* whose end is below the grid
ProbeInputs == {0, 1890, 2185}

\* single steps of c3, c4 (player 0) and g5, g6 (player 1) to the next row
\* and back
ShuttleActions == {1690, 1435, 1720, 1465, 685, 940, 715, 970}

InitGame(table) ==
  /\ board_ = BoardOf(table)
  /\ current_player_ = 0
  /\ outcome_ = kInvalidPlayer
  /\ num_moves_ = 0
  /\ fatal = FALSE
  /\ pre = [st |-> MkState(BoardOf(table), 0, kInvalidPlayer, 0), branch |-> "none"]
  /\ input = NoAction
  /\ decoded = NoMove
  /\ encoded = NoAction
  /\ clone = NoClone

Init == InitGame(ABALONE_INIT_CLASSIC)

Submit ==
  \E action \in ActionIds :
     /\ ~IsTerminal(This)
     /\ \/ action \in ProbeInputs
        \/ /\ num_moves_ < MaxPlies
           /\ num_moves_ = 0 \/ action \in ShuttleActions
           /\ ValidAction(This, action)
     /\ DoApplyAction(action)
     /\ UNCHANGED << input, decoded, encoded, clone >>

SubmitAfterEnd ==
  \E action \in ProbeInputs :
     /\ IsTerminal(This)
     /\ DoApplyAction(action)
     /\ UNCHANGED << input, decoded, encoded, clone >>

Next == Submit \/ SubmitAfterEnd

Spec == Init /\ [][Next]_vars

(***************************************************************************)
(* SpecCodec: the codec on every action id.  Init draws the id, Decode     *)
(* applies ActionToMove, Encode applies MoveToAction to the decoded move.  *)
(***************************************************************************)
InitCodec ==
  /\ board_ = BoardOf(ABALONE_INIT_CLASSIC)
  /\ current_player_ = 0
  /\ outcome_ = kInvalidPlayer
  /\ num_moves_ = 0
  /\ fatal = FALSE
  /\ pre = [st |-> MkState(BoardOf(ABALONE_INIT_CLASSIC), 0, kInvalidPlayer, 0),
            branch |-> "none"]
  /\ input \in ActionIds
  /\ decoded = NoMove
  /\ encoded = NoAction
  /\ clone = NoClone

Decode ==
  /\ decoded = NoMove
  /\ decoded' = ActionToMove(input)
  /\ UNCHANGED << board_, current_player_, outcome_, num_moves_, fatal, pre,
                  input, encoded, clone >>

Encode ==
  /\ decoded # NoMove
  /\ encoded = NoAction
  /\ encoded' = MoveToAction(decoded)
  /\ UNCHANGED << board_, current_player_, outcome_, num_moves_, fatal, pre,
                  input, decoded, clone >>

NextCodec == Decode \/ Encode

SpecCodec == InitCodec /\ [][NextCodec]_vars

(***************************************************************************)
(* SpecLine, SpecSlide: IsValid and Apply on every window of cells a move  *)
(* reads.  Init draws a position set up with SetBoard on the empty board   *)
(* (VALID_BOARD) together with the action id under test; Probe hands that  *)
(* id to DoApplyAction once.  Player 1 is to move after one move.          *)
(***************************************************************************)
Marbles == {kPlayer1, kPlayer2}
CellValues == {kEmpty, kPlayer1, kPlayer2}
Playable(r, c) == InGrid(r, c) /\ VALID_BOARD[r * kNumCols + c + 1] # kInvalid

ActionId(r, c, dir, moveType) ==
  ((r * kNumCols + c) * Direction_Last + dir) * kNumActionsPerDirection + moveType

EmptyBoard == BoardOf(VALID_BOARD)

\* SetBoard on a cell of the hex board; the corner cells stay Invalid
Place(b, r, c, state) == IF Playable(r, c) THEN SetBoard(b, r, c, state) ELSE b

LineCell(r, c, dir, k) ==
  Coord(r + k * Offsets(dir).m_row, c + k * Offsets(dir).m_column)

RECURSIVE WriteLine(_, _, _, _, _, _)
WriteLine(b, r, c, dir, pat, k) ==
  IF k > PatLen THEN b
  ELSE WriteLine(Place(b, LineCell(r, c, dir, k).m_row, LineCell(r, c, dir, k).m_column,
                       pat[k]),
                 r, c, dir, pat, k + 1)

\* the start cell holds the mover's marble, the k-th cell after it pat[k]
LineBoard(r, c, dir, player, pat) ==
  WriteLine(Place(EmptyBoard, r, c, PlayerToState(player)), r, c, dir, pat, 1)

InitProbe(b, player, action) ==
  /\ board_ = b
  /\ current_player_ = player
  /\ outcome_ = kInvalidPlayer
  /\ num_moves_ = player
  /\ fatal = FALSE
  /\ pre = [st |-> MkState(b, player, kInvalidPlayer, player), branch |-> "none"]
  /\ input = action
  /\ decoded = NoMove
  /\ encoded = NoAction
  /\ clone = NoClone

InitLine ==
  \E r \in 0 .. (kNumRows - 1), c \in 0 .. (kNumCols - 1),
     dir \in Direction_First .. (Direction_Last - 1), player \in {0, 1},
     pat \in [1 .. PatLen -> CellValues] :
     /\ Playable(r, c)
     /\ \A k \in 1 .. PatLen :
           IF Playable(LineCell(r, c, dir, k).m_row, LineCell(r, c, dir, k).m_column)
           THEN TRUE
           ELSE pat[k] = kEmpty
     /\ InitProbe(LineBoard(r, c, dir, player, pat), player, ActionId(r, c, dir, 0))

\* number of cells of the line of a slide subtype, and its stepping offset
SlideSize(moveType) == IF moveType <= 2 THEN 2 ELSE 3
SlideStep(dir, moveType) ==
  Offsets((dir + (IF moveType % 2 = 1 THEN 1 ELSE 2)) % Direction_Last)

SlideLineCell(r, c, dir, moveType, k) ==
  Coord(r + k * SlideStep(dir, moveType).m_row, c + k * SlideStep(dir, moveType).m_column)

SlideDestCell(r, c, dir, moveType, k) ==
  Coord(SlideLineCell(r, c, dir, moveType, k).m_row + Offsets(dir).m_row,
        SlideLineCell(r, c, dir, moveType, k).m_column + Offsets(dir).m_column)

RECURSIVE WriteSlide(_, _, _, _, _, _, _, _)
WriteSlide(b, r, c, dir, moveType, line, dest, k) ==
  IF k >= SlideSize(moveType) THEN b
  ELSE LET lc == SlideLineCell(r, c, dir, moveType, k)
           dc == SlideDestCell(r, c, dir, moveType, k)
       IN  WriteSlide(Place(Place(b, lc.m_row, lc.m_column, line[k]),
                            dc.m_row, dc.m_column, dest[k]),
                      r, c, dir, moveType, line, dest, k + 1)

\* the k-th cell of the line holds line[k] (the mover's marble for k = 0),
\* its translation by the move direction holds dest[k]
SlideBoard(r, c, dir, moveType, player, line, dest) ==
  WriteSlide(EmptyBoard, r, c, dir, moveType, line, dest, 0)

InitSlide ==
  \E r \in 0 .. (kNumRows - 1), c \in 0 .. (kNumCols - 1),
     dir \in Direction_First .. (Direction_Last - 1), player \in {0, 1},
     moveType \in 1 .. 4 :
     /\ Playable(r, c)
     /\ \E line \in [0 .. (SlideSize(moveType) - 1) -> CellValues],
           dest \in [0 .. (SlideSize(moveType) - 1) -> CellValues] :
           /\ line[0] = PlayerToState(player)
           /\ Cardinality({k \in DOMAIN line : line[k] # PlayerToState(player)})
                + Cardinality({k \in DOMAIN dest : dest[k] # kEmpty}) <= MaxOdd
           /\ InitProbe(SlideBoard(r, c, dir, moveType, player, line, dest), player,
                        ActionId(r, c, dir, moveType))

Probe ==
  /\ pre.branch = "none"
  /\ input # NoAction
  /\ DoApplyAction(input)
  /\ UNCHANGED << input, decoded, encoded, clone >>

NextProbe == Probe

SpecLine == InitLine /\ [][NextProbe]_vars

SpecSlide == InitSlide /\ [][NextProbe]_vars

(***************************************************************************)
(* SpecEndgame: a game of legal moves from the classic layout in which     *)
(* each player loses five marbles (EndgameLine), replayed move by move,    *)
(* then continued with any legal action for MaxPlies plies.  The ids of    *)
(* ProbeInputs may be submitted at any point.                              *)
(***************************************************************************)
EndgameLine ==
  << 1725, 675, 2016, 747, 1695, 645, 2260, 390, 2230, 1015, 2285, 265, 2165,
     600, 1710, 795, 1985, 690, 1745, 235, 1625, 775, 1890, 1045, 2045, 1335,
     1690, 1305, 1780, 500, 1510, 175, 1940, 530, 1400, 475, 1435, 740, 1955,
     645, 1990, 975, 1720, 770, 1576, 710, 1925, 1230, 1445, 745, 1480, 1015,
     975, 440, 1690, 672, 1150, 140, 2229, 1195, 1790, 380, 1995, 620, 1525,
     410, 2037, 180, 1890, 650, 1630, 890, 2285, 1285, 1985, 235, 1426, 1580,
     1970, 865, 2200, 500, 1930 >>

InitEndgame ==
  /\ board_ = BoardOf(ABALONE_INIT_CLASSIC)
  /\ current_player_ = 0
  /\ outcome_ = kInvalidPlayer
  /\ num_moves_ = 0
  /\ fatal = FALSE
  /\ pre = [st |-> MkState(BoardOf(ABALONE_INIT_CLASSIC), 0, kInvalidPlayer, 0),
            branch |-> "none"]
  /\ input = EndgameLine[1]
  /\ decoded = NoMove
  /\ encoded = NoAction
  /\ clone = NoClone

\* the next move of the line is played
Replay ==
  /\ input # NoAction
  /\ DoApplyAction(input)
  /\ input' = IF num_moves_ + 1 < Len(EndgameLine)
              THEN EndgameLine[num_moves_ + 2]
              ELSE NoAction
  /\ UNCHANGED << decoded, encoded, clone >>

SubmitTail ==
  \E action \in ActionIds :
     /\ ~IsTerminal(This)
     /\ \/ action \in ProbeInputs
        \/ /\ input = NoAction
           /\ num_moves_ >= Len(EndgameLine)
           /\ num_moves_ < Len(EndgameLine) + MaxPlies
           /\ ValidAction(This, action)
     /\ DoApplyAction(action)
     /\ input' = NoAction
     /\ UNCHANGED << decoded, encoded, clone >>

SubmitEnded ==
  \E action \in ProbeInputs :
     /\ IsTerminal(This)
     /\ DoApplyAction(action)
     /\ input' = NoAction
     /\ UNCHANGED << decoded, encoded, clone >>

NextEndgame == Replay \/ SubmitTail \/ SubmitEnded

SpecEndgame == InitEndgame /\ [][NextEndgame]_vars

(***************************************************************************)
(* SpecLong: legal play from the classic layout up to the move ceiling.    *)
(* Each action is one LegalActions() lists for the current state (the game *)
(* is running and IsValid accepts the decoded move), among the single      *)
(* steps of ShuttleActions.                                                *)
(***************************************************************************)
\* action is an element of LegalActions() in state st
IsLegal(st, action) == ~IsTerminal(st) /\ ValidAction(st, action)

PlayLegal ==
  \E action \in ShuttleActions :
     /\ num_moves_ < kHistoryMax + MaxOverrun
     /\ IsLegal(This, action)
     /\ DoApplyAction(action)
     /\ UNCHANGED << input, decoded, encoded, clone >>

NextLong == PlayLegal

SpecLong == Init /\ [][NextLong]_vars

(***************************************************************************)
(* SpecCeiling: a played game that runs into the move ceiling.  The first  *)
(* CeilingPrefix moves of EndgameLine leave 9 marbles against 10; the      *)
(* players then repeat ShuttleCycle until the counter stops them.  At any  *)
(* point a caller may instead submit one of the ids of SideInputs (the     *)
(* ids of ProbeInputs, ids past the last action id, and 1820, which        *)
(* pushes player 0's ninth marble off the board whenever player 1 is to    *)
(* move inside the cycle) or an id below 0, and it may go on submitting    *)
(* after the game has ended.                                               *)
(***************************************************************************)
CeilingPrefix == Len(EndgameLine) - 1
ShuttleCycle == << 930, 720, 975, 765 >>

CeilingLine ==
  [i \in 1 .. (kHistoryMax + MaxOverrun) |->
     IF i <= CeilingPrefix THEN EndgameLine[i]
     ELSE ShuttleCycle[((i - CeilingPrefix - 1) % Len(ShuttleCycle)) + 1]]

\* ids at and past NumDistinctActions: the decoded row is 9 or more
OutOfRangeInputs == {NumDistinctActions, NumDistinctActions + 1890}

SideInputs == ProbeInputs \cup OutOfRangeInputs \cup {1820}

\* C++ integer division and remainder truncate towards zero
CDiv(a, b) == IF a >= 0 THEN a \div b ELSE -((-a) \div b)
CMod(a, b) == a - b * CDiv(a, b)

\* ids whose moveType = moveId % 5 is negative: no case of the switch in
\* ActionToMove runs and m_end is returned uninitialized
UninitInputs == {-1, -4}
\* values an uninitialized coordinate may hold: inside and outside the grid
UninitValues == {-1, 4}

\* the moves ActionToMove may return for an id of UninitInputs
ActionToMoveUninit(moveId) ==
  LET rem1 == CDiv(moveId, kNumActionsPerDirection)
      dir == CMod(rem1, Direction_Last)
      rem2 == CDiv(rem1, Direction_Last)
      column == CMod(rem2, kNumCols)
      row == CDiv(rem2, kNumCols)
  IN  {MkMove(dir, row, column, er, ec) : er \in UninitValues, ec \in UninitValues}

\* DoApplyAction from the point where the move is decoded
DoApplyMove(move) ==
  /\ ~fatal
  /\ pre' = [st |-> This,
             branch |-> IF IsValidAborts(move, This) THEN "fatal"
                        ELSE IF IsValid(move, This) THEN "applied"
                        ELSE "forfeit"]
  /\ IF IsValidAborts(move, This)
     THEN /\ fatal' = TRUE
          /\ UNCHANGED << board_, current_player_, outcome_, num_moves_ >>
     ELSE \E post \in {IF IsValid(move, This)
                       THEN UpdateStep(AfterApply(This, move))
                       ELSE Forfeit(This)} :
              /\ board_' = post.board_
              /\ current_player_' = post.current_player_
              /\ outcome_' = post.outcome_
              /\ num_moves_' = post.num_moves_
              /\ fatal' = FALSE

InitCeiling ==
  /\ board_ = BoardOf(ABALONE_INIT_CLASSIC)
  /\ current_player_ = 0
  /\ outcome_ = kInvalidPlayer
  /\ num_moves_ = 0
  /\ fatal = FALSE
  /\ pre = [st |-> MkState(BoardOf(ABALONE_INIT_CLASSIC), 0, kInvalidPlayer, 0),
            branch |-> "none"]
  /\ input = CeilingLine[1]
  /\ decoded = NoMove
  /\ encoded = NoAction
  /\ clone = NoClone

\* the next move of the line is submitted, also when the game has ended
ReplayCeiling ==
  /\ input # NoAction
  /\ DoApplyAction(input)
  /\ input' = IF ~IsTerminal(This) /\ num_moves_ + 1 < Len(CeilingLine)
              THEN CeilingLine[num_moves_ + 2]
              ELSE NoAction
  /\ UNCHANGED << decoded, encoded, clone >>

\* an id of SideInputs is submitted to a running game
SubmitSide ==
  \E action \in SideInputs :
     /\ ~IsTerminal(This)
     /\ DoApplyAction(action)
     /\ input' = NoAction
     /\ UNCHANGED << decoded, encoded, clone >>

\* an id of SideInputs is submitted to a game that has ended
SubmitSideEnded ==
  \E action \in SideInputs :
     /\ IsTerminal(This)
     /\ DoApplyAction(action)
     /\ input' = NoAction
     /\ UNCHANGED << decoded, encoded, clone >>

\* an id below 0 is submitted
SubmitUninit ==
  \E action \in UninitInputs :
     \E move \in ActionToMoveUninit(action) :
        /\ DoApplyMove(move)
        /\ input' = NoAction
        /\ UNCHANGED << decoded, encoded, clone >>

NextCeiling == ReplayCeiling \/ SubmitSide \/ SubmitSideEnded \/ SubmitUninit

SpecCeiling == InitCeiling /\ [][NextCeiling]_vars

(***************************************************************************)
(* SpecBlockade: a game of legal single-marble steps from the classic       *)
(* layout after which player 0's marbles stand on the rim behind a wall of  *)
(* player 1's marbles                                                       *)
(***************************************************************************)
BlockadeLine ==
  <<
     1690, 680, 1420, 925, 1155, 1190, 1125, 1430, 1720, 715, 1455, 985,
     1425, 1255, 1395, 1525, 1925, 410, 1690, 655, 1425, 920, 1400, 1165,
     1745, 1435, 1500, 1700, 1530, 440, 1565, 680, 1985, 925, 1745, 1195,
     1500, 1465, 1530, 1735, 2020, 145, 1745, 740, 1500, 980, 1555, 1225,
     1960, 1490, 1690, 1730, 1410, 415, 1450, 685, 1195, 955, 1460, 1225,
     1685, 1495, 1450, 1765, 1185, 170, 1145, 410, 905, 650, 680, 890,
     905, 1135, 670, 475, 395, 745, 165, 1015, 145, 1285, 415, 195,
     685, 170, 950, 410, 1175, 650, 940, 890, 660, 505, 715, 775,
     960, 1045, 1015, 535, 1275, 805, 1245, 225, 1220, 195, 1440, 170,
     1480, 410, 1215, 645, 1170, 255, 1205, 225, 975, 195, 945, 170,
     915, 410, 885, 650
  >>

InitBlockade ==
  /\ board_ = BoardOf(ABALONE_INIT_CLASSIC)
  /\ current_player_ = 0
  /\ outcome_ = kInvalidPlayer
  /\ num_moves_ = 0
  /\ fatal = FALSE
  /\ pre = [st |-> MkState(BoardOf(ABALONE_INIT_CLASSIC), 0, kInvalidPlayer, 0),
            branch |-> "none"]
  /\ input = BlockadeLine[1]
  /\ decoded = NoMove
  /\ encoded = NoAction
  /\ clone = NoClone

\* the next step of the line is played; every step is a legal action
ReplayBlockade ==
  /\ input # NoAction
  /\ IsLegal(This, input)
  /\ DoApplyAction(input)
  /\ input' = IF num_moves_ + 1 < Len(BlockadeLine)
              THEN BlockadeLine[num_moves_ + 2]
              ELSE NoAction
  /\ UNCHANGED << decoded, encoded, clone >>

\* after the line the player to move submits some id of the action space
SubmitBlocked ==
  \E action \in ProbeInputs \cup ShuttleActions :
     /\ input = NoAction
     /\ ~IsTerminal(This)
     /\ DoApplyAction(action)
     /\ UNCHANGED << input, decoded, encoded, clone >>

NextBlockade == ReplayBlockade \/ SubmitBlocked

SpecBlockade == InitBlockade /\ [][NextBlockade]_vars

(***************************************************************************)
(* SpecClone: a game from the classic layout of which one Clone() is made;  *)
(* afterwards both objects are handed action ids                            *)
(***************************************************************************)
\* plies played on either object
ClonePlies == MaxPlies + 1

\* ids handed to either object: the steps of ShuttleActions where legal, and
\* the forfeiting ids of ProbeInputs
CloneInputs == ShuttleActions \cup ProbeInputs

\* a call on the original; a copy sharing its board sees the new board
PlayOriginal ==
  \E action \in CloneInputs :
     /\ ~IsTerminal(This)
     /\ num_moves_ < ClonePlies
     /\ action \in ProbeInputs \/ ValidAction(This, action)
     /\ DoApplyAction(action)
     /\ clone' = IF clone.made
                 THEN [clone EXCEPT !.last = "original",
                                    !.other = clone.st,
                                    !.st = IF clone.shares
                                           THEN [clone.st EXCEPT !.board_ = board_']
                                           ELSE clone.st]
                 ELSE clone
     /\ UNCHANGED << input, decoded, encoded >>

MakeClone ==
  /\ ~fatal
  /\ ~clone.made
  /\ clone' = CloneOf(This)
  /\ UNCHANGED << board_, current_player_, outcome_, num_moves_, fatal, pre,
                  input, decoded, encoded >>

\* a call on the copy; the original sees the new board if the copy shares it
PlayClone ==
  \E action \in CloneInputs :
     /\ ~fatal
     /\ clone.made
     /\ ~IsTerminal(clone.st)
     /\ clone.st.num_moves_ < ClonePlies
     /\ action \in ProbeInputs \/ ValidAction(clone.st, action)
     /\ \E post \in {DoApplyActionResult(clone.st, action)} :
           /\ clone' = [clone EXCEPT !.last = "clone", !.other = This, !.st = post]
           /\ board_' = IF clone.shares THEN post.board_ ELSE board_
     /\ UNCHANGED << current_player_, outcome_, num_moves_, fatal, pre,
                     input, decoded, encoded >>

NextClone == PlayOriginal \/ MakeClone \/ PlayClone

SpecClone == Init /\ [][NextClone]_vars

(***************************************************************************)
(* SpecShift: the in-row action of every cell and direction on a board      *)
(* where the line from start is a run of own marbles, a run of opposing     *)
(* marbles and possibly one Empty cell, and every other playable cell holds *)
(* the same content                                                         *)
(***************************************************************************)
\* the board whose playable cells all hold fill
Backdrop(fill) ==
  [i \in 0 .. (kNumCells - 1) |-> IF VALID_BOARD[i + 1] = kInvalid THEN kInvalid ELSE fill]

\* content of the k-th cell of the line from start
ShiftCell(player, own, opp, gap, fill, k) ==
  IF k < own THEN PlayerToState(player)
  ELSE IF k < own + opp THEN PlayerToState(1 - player)
  ELSE IF gap THEN kEmpty
  ELSE fill

RECURSIVE WriteShift(_, _, _, _, _, _, _, _, _, _)
WriteShift(b, r, c, dir, player, own, opp, gap, fill, k) ==
  IF k > own + opp THEN b
  ELSE WriteShift(Place(b, LineCell(r, c, dir, k).m_row, LineCell(r, c, dir, k).m_column,
                        ShiftCell(player, own, opp, gap, fill, k)),
                  r, c, dir, player, own, opp, gap, fill, k + 1)

ShiftBoard(r, c, dir, player, own, opp, gap, fill) ==
  WriteShift(Backdrop(fill), r, c, dir, player, own, opp, gap, fill, 0)

InitShift ==
  \E r \in 0 .. (kNumRows - 1), c \in 0 .. (kNumCols - 1),
     dir \in Direction_First .. (Direction_Last - 1), player \in {0, 1},
     own \in 1 .. 3, opp \in 0 .. 2, gap \in BOOLEAN, fill \in CellValues :
     /\ Playable(r, c)
     /\ InitProbe(ShiftBoard(r, c, dir, player, own, opp, gap, fill), player,
                  ActionId(r, c, dir, 0))

SpecShift == InitShift /\ [][NextProbe]_vars

(***************************************************************************)
(* SpecGlide: the slide actions of every cell and direction on a board      *)
(* where the line holds the mover's marbles and the cells it moves to are   *)
(* Empty, but for at most one line cell and one destination that hold what  *)
(* every other playable cell holds                                          *)
(***************************************************************************)
GlideLine(moveType, player, hole, fill) ==
  [k \in 0 .. (SlideSize(moveType) - 1) |->
     IF hole /\ k = SlideSize(moveType) - 1 THEN fill ELSE PlayerToState(player)]

GlideDest(moveType, blocked, fill) ==
  [k \in 0 .. (SlideSize(moveType) - 1) |-> IF k + 1 = blocked THEN fill ELSE kEmpty]

GlideBoard(r, c, dir, moveType, player, hole, blocked, fill) ==
  WriteSlide(Backdrop(fill), r, c, dir, moveType,
             GlideLine(moveType, player, hole, fill),
             GlideDest(moveType, blocked, fill), 0)

InitGlide ==
  \E r \in 0 .. (kNumRows - 1), c \in 0 .. (kNumCols - 1),
     dir \in Direction_First .. (Direction_Last - 1), player \in {0, 1},
     moveType \in 1 .. 4, hole \in BOOLEAN, blocked \in 0 .. 3, fill \in CellValues :
     /\ blocked <= SlideSize(moveType)
     /\ Playable(r, c) \/ (player = 0 /\ ~hole /\ blocked = 0 /\ fill = kEmpty)
     /\ InitProbe(GlideBoard(r, c, dir, moveType, player, hole, blocked, fill), player,
                  ActionId(r, c, dir, moveType))

SpecGlide == InitGlide /\ [][NextProbe]_vars

(***************************************************************************)
(* Properties                                                              *)
(***************************************************************************)
\* the last call was made on a running game and took the given branch
LastCall(branch) == pre.branch = branch /\ ~IsTerminal(pre.st)

ForfeitReturns(player) == IF player = 0 THEN <<-kWin, kWin>> ELSE <<kWin, -kWin>>

\* C1: for every action id i in [0, 2430), MoveToAction(ActionToMove(i)) = i,
\* and decoding the re-encoded id gives back the decoded move (direction,
\* start and end).
C1_RoundTrip ==
  encoded # NoAction =>
     /\ decoded = ActionToMove(input)
     /\ encoded = input
     /\ ActionToMove(encoded) = decoded

\* a three-cell slide towards the backward sister went through the codec
C1_Witness ==
  /\ encoded # NoAction
  /\ input % kNumActionsPerDirection = 4
  /\ Abs(decoded.m_end.m_row - decoded.m_start.m_row) = 2

\* C4: LegalActions() is empty in a terminal state; otherwise it lists, in
\* strictly ascending order, exactly the ids of [0, 2430) whose decoded move
\* IsValid accepts in that state.
C4_LegalActions ==
  LET L == LegalActions(This)
  IN  IF IsTerminal(This) THEN L = << >>
      ELSE /\ \A k \in 1 .. (Len(L) - 1) : L[k] < L[k + 1]
           /\ {L[k] : k \in 1 .. Len(L)}
                = {a \in ActionIds : IsValid(ActionToMove(a), This)}

\* a position reached by a legal move, with its own legal actions
C4_Witness ==
  /\ LastCall("applied")
  /\ ~IsTerminal(This)
  /\ Len(LegalActions(This)) > 1

\* C5: an invalid action applied to a running game ends it in favour of the
\* opponent of the acting player: IsTerminal() holds and Returns() is
\* {-1,+1} when player 0 acted, {+1,-1} when player 1 acted.
C5_Forfeiture ==
  /\ LastCall("forfeit") =>
        /\ IsTerminal(This)
        /\ Returns(This) = ForfeitReturns(pre.st.current_player_)
  /\ ~IsTerminal(This) =>
        \A a \in ActionIds :
           ~ValidAction(This, a) =>
              LET post == DoApplyActionResult(This, a)
              IN  /\ IsTerminal(post)
                  /\ Returns(post) = ForfeitReturns(current_player_)

\* player 1 forfeited on a board whose marble counts alone score 0
C5_Witness ==
  /\ LastCall("forfeit")
  /\ pre.st.current_player_ = 1
  /\ Returns(This) = <<kWin, -kWin>>
  /\ BallCount(board_, kPlayer1) = BallCount(board_, kPlayer2)

\* C6: an invalid action sets outcome to the opponent of the current player
\* and changes nothing else: every board cell keeps its value.
C6_ForfeitFrame ==
  /\ LastCall("forfeit") =>
        /\ outcome_ = 1 - pre.st.current_player_
        /\ board_ = pre.st.board_
  /\ ~IsTerminal(This) =>
        \A a \in ActionIds :
           ~ValidAction(This, a) =>
              LET post == DoApplyActionResult(This, a)
              IN  /\ post.outcome_ = 1 - current_player_
                  /\ post.board_ = board_

\* player 0 submitted an invalid action and the board is as it was
C6_Witness ==
  /\ LastCall("forfeit")
  /\ pre.st.current_player_ = 0
  /\ outcome_ = 1
  /\ board_ = pre.st.board_

\* C7 as stated: every call on a running game, legal or forfeiting, toggles
\* the current player and adds 1 to the move counter.
C7_TogglesOnEveryCall ==
  (LastCall("applied") \/ LastCall("forfeit")) =>
     /\ current_player_ = 1 - pre.st.current_player_
     /\ num_moves_ = pre.st.num_moves_ + 1

\* C7 amended: a legal action toggles the current player and adds 1 to the
\* move counter; a forfeiting action leaves both as they were.
C7_TogglesWhenLegal ==
  /\ LastCall("applied") =>
        /\ current_player_ = 1 - pre.st.current_player_
        /\ num_moves_ = pre.st.num_moves_ + 1
  /\ LastCall("forfeit") =>
        /\ current_player_ = pre.st.current_player_
        /\ num_moves_ = pre.st.num_moves_
  /\ ~IsTerminal(This) =>
        \A a \in ActionIds :
           LET post == DoApplyActionResult(This, a)
           IN  IF ValidAction(This, a)
               THEN /\ post.current_player_ = 1 - current_player_
                    /\ post.num_moves_ = num_moves_ + 1
               ELSE /\ post.current_player_ = current_player_
                    /\ post.num_moves_ = num_moves_

\* player 0 made a legal first move: player 1 is to move at count 1
C7_Witness ==
  /\ LastCall("applied")
  /\ pre.st.current_player_ = 0
  /\ current_player_ = 1
  /\ num_moves_ = 1

\* the cell k steps from the start of move along its direction, a position
\* outside the grid reading as Invalid
Ahead(st, move, k) ==
  LET r == move.m_start.m_row + k * Offsets(move.m_direction).m_row
      c == move.m_start.m_column + k * Offsets(move.m_direction).m_column
  IN  IF InGrid(r, c) THEN st.board_[r * kNumCols + c] ELSE kInvalid

RECURSIVE RunLength(_, _, _, _)
\* number of consecutive cells from position k on whose content is in cells
RunLength(st, move, k, cells) ==
  IF k < kNumRows + kNumCols /\ Ahead(st, move, k) \in cells
  THEN 1 + RunLength(st, move, k + 1, cells)
  ELSE 0

OwnCell(st) == PlayerToState(st.current_player_)
OppCell(st) == PlayerToState(1 - st.current_player_)
OwnRun(st, move) == RunLength(st, move, 0, {OwnCell(st)})
OppRun(st, move) == RunLength(st, move, OwnRun(st, move), {OppCell(st)})

\* N own marbles followed by Empty, or by M < N opposing marbles and then an
\* Empty, Invalid or off-grid cell
SumitoAccepts(st, move) ==
  LET N == OwnRun(st, move)
      M == OppRun(st, move)
  IN  /\ N \in 1 .. 3
      /\ \/ Ahead(st, move, N) = kEmpty
         \/ /\ 1 <= M
            /\ M < N
            /\ Ahead(st, move, N + M) \in {kEmpty, kInvalid}

\* an in-row move with both ends in the grid whose start holds the mover's marble
InRowCase(st, move) ==
  /\ ~IsTerminal(st)
  /\ IsInRowMove(move)
  /\ MoveInGrid(move)
  /\ Ahead(st, move, 0) = OwnCell(st)

InRowVerdict(st, move) ==
  InRowCase(st, move) =>
     /\ IsValid(move, st) <=> SumitoAccepts(st, move)
     /\ (OwnRun(st, move) = 2 /\ OppRun(st, move) = 1
           /\ Ahead(st, move, 3) \in {kEmpty, kInvalid}) => IsValid(move, st)
     /\ (OwnRun(st, move) = 2 /\ OppRun(st, move) = 2) => ~IsValid(move, st)
     /\ Ahead(st, move, OwnRun(st, move)) = kInvalid => ~IsValid(move, st)
     /\ OwnRun(st, move) >= 4 => ~IsValid(move, st)

\* C2: an in-row move with both ends in the grid and the mover's marble on
\* start is valid iff the line from start is N own marbles (N in 1..3)
\* followed by Empty, or by M opposing marbles, 1 <= M < N, followed by an
\* Empty, Invalid or off-grid cell; 2 against 1 is accepted, 2 against 2, a
\* line ending at an Invalid cell and a fourth own marble are rejected.
C2_Sumito ==
  /\ input # NoAction => InRowVerdict(pre.st, ActionToMove(input))
  /\ (input # NoAction /\ pre.branch # "none" /\ InRowCase(pre.st, ActionToMove(input))) =>
        ((pre.branch = "applied") <=> SumitoAccepts(pre.st, ActionToMove(input)))

\* two marbles pushed one opposing marble, and the push was applied
C2_Witness ==
  /\ input # NoAction
  /\ LastCall("applied")
  /\ OwnRun(pre.st, ActionToMove(input)) = 2
  /\ OppRun(pre.st, ActionToMove(input)) = 1

\* every cell of the line of a slide action holds the mover's marble and
\* its translation by the move direction is in the grid and Empty
SlideAccepts(st, action) ==
  LET move == ActionToMove(action)
      step == SlideStep(move.m_direction, action % kNumActionsPerDirection)
      off == Offsets(move.m_direction)
      own == OwnCell(st)
  IN  \A k \in 0 .. (SlideSize(action % kNumActionsPerDirection) - 1) :
         LET lr == move.m_start.m_row + k * step.m_row
             lc == move.m_start.m_column + k * step.m_column
         IN  /\ st.board_[lr * kNumCols + lc] = own
             /\ InGrid(lr + off.m_row, lc + off.m_column)
             /\ st.board_[(lr + off.m_row) * kNumCols + lc + off.m_column] = kEmpty

SlideCase(st, action) ==
  /\ ~IsTerminal(st)
  /\ action % kNumActionsPerDirection \in 1 .. 4
  /\ MoveInGrid(ActionToMove(action))
  /\ Ahead(st, ActionToMove(action), 0) = OwnCell(st)

\* C3: a slide decoded from an id of subtype 1..4, with both ends in the grid
\* and the mover's marble on start, is valid iff every cell of the line holds
\* the mover's marble and every such cell translated by the move direction
\* is inside the grid and Empty.
C3_Slide ==
  (input # NoAction /\ SlideCase(pre.st, input)) =>
     /\ IsValid(ActionToMove(input), pre.st) <=> SlideAccepts(pre.st, input)
     /\ pre.branch # "none" => ((pre.branch = "applied") <=> SlideAccepts(pre.st, input))

\* a line of three marbles was slid
C3_Witness ==
  /\ input # NoAction
  /\ input % kNumActionsPerDirection \in {3, 4}
  /\ LastCall("applied")
  /\ SlideAccepts(pre.st, input)

TotalMarbles(b) == BallCount(b, kPlayer1) + BallCount(b, kPlayer2)

\* the run of marbles pushed by an in-row move ends at the rim: the next
\* position is an Invalid cell or outside the grid
PushedOverRim(st, move) ==
  Ahead(st, move, RunLength(st, move, 0, Marbles)) = kInvalid

\* C8: a legal in-row move never adds a marble; it removes exactly one when
\* the frontmost pushed marble has no cell of the board ahead of it and
\* leaves the total unchanged otherwise.
C8_MarbleConservation ==
  (input # NoAction /\ LastCall("applied") /\ IsInRowMove(ActionToMove(input))) =>
     LET before == TotalMarbles(pre.st.board_)
         after == TotalMarbles(board_)
         rim == PushedOverRim(pre.st, ActionToMove(input))
     IN  /\ after <= before
         /\ after < before => (after = before - 1 /\ rim)
         /\ ~rim => after = before
         /\ rim => after = before - 1

\* three marbles pushed two opposing marbles, the front one over the rim
C8_Witness ==
  /\ input # NoAction
  /\ LastCall("applied")
  /\ OppRun(pre.st, ActionToMove(input)) = 2
  /\ TotalMarbles(board_) = TotalMarbles(pre.st.board_) - 1

\* the verdict of the winner test on the state post reached by a legal
\* move of mover
ThresholdVerdict(post, mover) ==
  IF BallCount(post.board_, PlayerToState(1 - mover)) <= kInitialMarbles - kMarblesToWin
  THEN /\ post.outcome_ = mover
       /\ IsTerminal(post)
       /\ Returns(post)[mover + 1] = kWin
       /\ Returns(post)[(1 - mover) + 1] = -kWin
  ELSE post.outcome_ = kInvalidPlayer

\* C9: after a legal move, outcome is the mover iff the opponent has at most
\* 14 - kMarblesToWin = 8 marbles on the board; the state is then terminal
\* with +1 for the mover and -1 for the opponent; otherwise outcome stays
\* unset.
C9_ThresholdWin ==
  /\ LastCall("applied") => ThresholdVerdict(This, pre.st.current_player_)
  /\ ~IsTerminal(This) =>
        \A a \in ActionIds :
           ValidAction(This, a) =>
              ThresholdVerdict(DoApplyActionResult(This, a), current_player_)

\* a legal move pushed the opponent's sixth marble off the board
C9_Witness ==
  /\ LastCall("applied")
  /\ outcome_ = pre.st.current_player_
  /\ BallCount(board_, PlayerToState(1 - pre.st.current_player_))
       = kInitialMarbles - kMarblesToWin
  /\ BallCount(pre.st.board_, PlayerToState(1 - pre.st.current_player_))
       = kInitialMarbles - kMarblesToWin + 1

StaysEnded(st, post) ==
  /\ IsTerminal(post)
  /\ post.board_ = st.board_
  /\ st.outcome_ \in {0, 1} => post.outcome_ = st.outcome_

\* C11: once IsTerminal() holds it holds after every further DoApplyAction
\* call, an outcome that names a player is never replaced by another value,
\* and a call made after the end leaves the board as it was.
C11_TerminalAbsorbing ==
  /\ pre.st.outcome_ \in {0, 1} => outcome_ = pre.st.outcome_
  /\ (IsTerminal(pre.st) /\ pre.branch # "none") => StaysEnded(pre.st, This)
  /\ IsTerminal(This) =>
        \A a \in ActionIds \cup OutOfRangeInputs :
           ~DoApplyActionAborts(This, a) =>
              StaysEnded(This, DoApplyActionResult(This, a))

\* player 1 won by pushing off a sixth marble, and a further id was handled
\* by the forfeit branch
C11_Witness ==
  /\ IsTerminal(pre.st)
  /\ pre.branch = "forfeit"
  /\ pre.st.outcome_ = 1
  /\ pre.st.current_player_ = 0
  /\ BallCount(board_, kPlayer1) = kInitialMarbles - kMarblesToWin
  /\ outcome_ = 1

\* C12: IsTerminal() holds exactly when outcome names a player (after a
\* forfeit or a threshold win) or the move counter has reached 200, and
\* CurrentPlayer() is the terminal marker exactly then and the stored player
\* 0 or 1 otherwise.
C12_TerminalIff ==
  LET ended == outcome_ \in {0, 1} \/ num_moves_ >= kHistoryMax
  IN  /\ IsTerminal(This) <=> ended
      /\ outcome_ \in {0, 1, kInvalidPlayer}
      /\ (outcome_ \in {0, 1} /\ pre.st.outcome_ = kInvalidPlayer) =>
            \/ pre.branch = "forfeit"
            \/ /\ pre.branch = "applied"
               /\ BallCount(board_, PlayerToState(1 - outcome_))
                    <= kInitialMarbles - kMarblesToWin
      /\ ended => CurrentPlayer(This) = kTerminalPlayerId
      /\ ~ended => (CurrentPlayer(This) = current_player_ /\ current_player_ \in {0, 1})

\* the 200th legal move was played: the state is terminal without a winner
C12_Witness ==
  /\ LastCall("applied")
  /\ num_moves_ = kHistoryMax
  /\ outcome_ = kInvalidPlayer
  /\ CurrentPlayer(This) = kTerminalPlayerId

\* the marbles a player has lost
MarblesLost(b, player) == kInitialMarbles - BallCount(b, PlayerToState(player))

\* C13: when the counter reaches the ceiling by a legal move that is neither
\* a forfeit nor a threshold win, outcome stays unset and Returns() is the
\* marble differential: (lost by player 1 - lost by player 0) x 0.1 for
\* player 0 and its negation for player 1, not +1/-1.
C13_CeilingScore ==
  (/\ LastCall("applied")
   /\ num_moves_ >= kHistoryMax
   /\ BallCount(board_, kPlayer1) > kInitialMarbles - kMarblesToWin
   /\ BallCount(board_, kPlayer2) > kInitialMarbles - kMarblesToWin) =>
     /\ IsTerminal(This)
     /\ outcome_ = kInvalidPlayer
     /\ Returns(This)[1] = MarblesLost(board_, 1) - MarblesLost(board_, 0)
     /\ Returns(This)[2] = -Returns(This)[1]
     /\ Returns(This)[1] \notin {kWin, -kWin}

\* the ceiling was reached with 9 marbles against 10: the score is -0.1, +0.1
C13_Witness ==
  /\ LastCall("applied")
  /\ num_moves_ = kHistoryMax
  /\ outcome_ = kInvalidPlayer
  /\ Returns(This) = <<-1, 1>>

\* the state the constructor leaves: classic layout, nothing submitted yet
AtStart == num_moves_ = 0 /\ outcome_ = kInvalidPlayer /\ pre.branch = "none"

\* in-line ids of the classic opening: b1 one step along (0,+1) towards b2,
\* and c3 one step along (-1,0) towards d3
StepB1Right == MoveToAction(MkMove(0, 7, 0, 7, 1))
StepC3Up == MoveToAction(MkMove(2, 6, 2, 5, 2))

\* C14 as stated: from the classic layout b2 is Empty and the in-line step of
\* b1 into b2 leaves b1 Empty, b2 Player1, player 1 to move, counter 1 and a
\* running game.
C14_StepIntoB2 ==
  AtStart =>
    LET post == DoApplyActionResult(This, StepB1Right)
    IN  /\ BoardAt(board_, 7, 1) = kEmpty
        /\ BoardAt(post.board_, 7, 0) = kEmpty
        /\ BoardAt(post.board_, 7, 1) = kPlayer1
        /\ post.current_player_ = 1
        /\ post.num_moves_ = 1
        /\ ~IsTerminal(post)

\* C14 (amended): in the classic layout b2 holds a Player1 marble (row b has
\* six), the in-line step of b1 towards b2 is not legal and forfeits (board
\* as before, player 0 stored, counter 0, outcome 1, terminal); the in-line
\* step of c3 into the Empty d3 leaves c3 Empty, d3 Player1, player 1 to
\* move, counter 1 and a running game.
C14_ClassicOpeningStep ==
  /\ AtStart =>
       LET forfeited == DoApplyActionResult(This, StepB1Right)
           post == DoApplyActionResult(This, StepC3Up)
       IN  /\ BoardAt(board_, 7, 0) = kPlayer1
           /\ BoardAt(board_, 7, 1) = kPlayer1
           /\ ~ValidAction(This, StepB1Right)
           /\ forfeited.board_ = board_
           /\ forfeited.current_player_ = 0
           /\ forfeited.num_moves_ = 0
           /\ forfeited.outcome_ = 1
           /\ IsTerminal(forfeited)
           /\ BoardAt(board_, 6, 2) = kPlayer1
           /\ BoardAt(board_, 5, 2) = kEmpty
           /\ BoardAt(post.board_, 6, 2) = kEmpty
           /\ BoardAt(post.board_, 5, 2) = kPlayer1
           /\ post.current_player_ = 1
           /\ post.num_moves_ = 1
           /\ ~IsTerminal(post)
  /\ (pre.st.num_moves_ = 0 /\ LastCall("forfeit")
        /\ This = DoApplyActionResult(pre.st, StepB1Right)) =>
       (outcome_ = 1 /\ num_moves_ = 0 /\ board_ = pre.st.board_)
  /\ (pre.st.num_moves_ = 0 /\ LastCall("applied")
        /\ This = DoApplyActionResult(pre.st, StepC3Up)) =>
       (BoardAt(board_, 5, 2) = kPlayer1 /\ current_player_ = 1 /\ num_moves_ = 1)

\* the step of b1 towards b2 was submitted first and ended the game
C14_Witness ==
  /\ pre.st.num_moves_ = 0
  /\ LastCall("forfeit")
  /\ This = DoApplyActionResult(pre.st, StepB1Right)
  /\ BoardAt(board_, 7, 0) = kPlayer1
  /\ IsTerminal(This)

\* C15: in the state after construction (classic layout) each player has
\* exactly 14 marbles, exactly 20 of the 81 cells are Invalid, player 0 is to
\* move, the counter is 0, outcome is unset, and LegalActions() is non-empty,
\* free of duplicates and made of ids whose move IsValid accepts.
C15_InitialState ==
  AtStart =>
    LET legal == LegalActions(This)
    IN  /\ BallCount(board_, kPlayer1) = kInitialMarbles
        /\ BallCount(board_, kPlayer2) = kInitialMarbles
        /\ BallCount(board_, kInvalid) = 20
        /\ Cardinality(DOMAIN board_) = kNumCells
        /\ current_player_ = 0
        /\ CurrentPlayer(This) = 0
        /\ outcome_ = kInvalidPlayer
        /\ Len(legal) > 0
        /\ \A i, j \in 1 .. Len(legal) : legal[i] = legal[j] => i = j
        /\ \A i \in 1 .. Len(legal) :
              legal[i] \in ActionIds /\ IsValid(ActionToMove(legal[i]), This)

\* the constructed state, with the opening step of c3 among its legal ids
C15_Witness ==
  /\ AtStart
  /\ BallCount(board_, kPlayer1) = kInitialMarbles
  /\ \E i \in 1 .. Len(LegalActions(This)) : LegalActions(This)[i] = StepC3Up

\* the cells of a board that hold kInvalid
InvalidCells(b) == {i \in DOMAIN b : b[i] = kInvalid}

\* C16: the Invalid cells of every state are those of VALID_BOARD (and of the
\* classic layout): no call writes a marble or Empty into an Invalid cell or
\* makes a playable cell Invalid; 61 cells stay playable.
C16_InvalidCellsFixed ==
  /\ InvalidCells(board_) = InvalidCells(BoardOf(VALID_BOARD))
  /\ InvalidCells(board_) = InvalidCells(BoardOf(ABALONE_INIT_CLASSIC))
  /\ InvalidCells(board_) = InvalidCells(pre.st.board_)
  /\ Cardinality(DOMAIN board_ \ InvalidCells(board_)) = 61

\* a step of the played line pushed a marble off the board towards an
\* Invalid cell of the grid, which is Invalid afterwards as well
C16_Witness ==
  /\ LastCall("applied")
  /\ pre.st.num_moves_ < Len(CeilingLine)
  /\ LET move == ActionToMove(CeilingLine[pre.st.num_moves_ + 1])
         k == RunLength(pre.st, move, 0, Marbles)
         r == move.m_start.m_row + k * Offsets(move.m_direction).m_row
         c == move.m_start.m_column + k * Offsets(move.m_direction).m_column
     IN  /\ This = DoApplyActionResult(pre.st, CeilingLine[pre.st.num_moves_ + 1])
         /\ IsInRowMove(move)
         /\ InGrid(r, c)
         /\ BoardAt(pre.st.board_, r, c) = kInvalid
         /\ BoardAt(board_, r, c) = kInvalid
         /\ TotalMarbles(board_) = TotalMarbles(pre.st.board_) - 1

\* C17: in every reachable state that is not terminal LegalActions() is not
\* empty.
C17_LegalActionsNonEmpty ==
  ~IsTerminal(This) => LegalActions(This) # << >>

\* after 124 legal steps nobody has lost a marble, the game is running, it is
\* player 0's turn and no id of the action space is valid
C17_Blocked ==
  /\ LastCall("applied")
  /\ num_moves_ = Len(BlockadeLine)
  /\ ~IsTerminal(This)
  /\ CurrentPlayer(This) = 0
  /\ BallCount(board_, kPlayer1) = kInitialMarbles
  /\ BallCount(board_, kPlayer2) = kInitialMarbles
  /\ \A action \in ActionIds : ~ValidAction(This, action)

\* C18: a call with an id outside [0, NumDistinctActions) aborts: it is not
\* handled as a forfeit and leaves no changed state behind.
C18_OutOfRangeAborts ==
  \A action \in OutOfRangeInputs :
     /\ action \notin ActionIds
     /\ DoApplyActionAborts(This, action)

\* id 2430 was submitted to a running game and handled as a forfeit of the
\* player to move
C18_HandledAsForfeit ==
  /\ LastCall("forfeit")
  /\ ~DoApplyActionAborts(pre.st, NumDistinctActions)
  /\ This = DoApplyActionResult(pre.st, NumDistinctActions)
  /\ ~fatal
  /\ outcome_ = 1 - pre.st.current_player_
  /\ IsTerminal(This)

\* MinUtility, UtilitySum and MaxUtility of the game, in tenths
MinUtility == -kWin
UtilitySum == 0
MaxUtility == kWin

\* C20: Returns() is zero-sum with both entries in [-1, +1], and an entry is
\* +1 or -1 only when outcome is set or a player's marble count is at or
\* below 14 - marblesToWin.
C20_ReturnsInRange ==
  LET ret == Returns(This)
  IN  /\ Len(ret) = kNumPlayers
      /\ ret[1] + ret[2] = UtilitySum
      /\ \A p \in 1 .. kNumPlayers : ret[p] >= MinUtility /\ ret[p] <= MaxUtility
      /\ (\E p \in 1 .. kNumPlayers : ret[p] \in {MinUtility, MaxUtility}) =>
            \/ outcome_ \in {0, 1}
            \/ BallCount(board_, kPlayer1) <= kInitialMarbles - kMarblesToWin
            \/ BallCount(board_, kPlayer2) <= kInitialMarbles - kMarblesToWin

\* a running game in which one player is a marble ahead: the score is the
\* shaping value, neither 0 nor a win
C20_Witness ==
  /\ LastCall("applied")
  /\ ~IsTerminal(This)
  /\ Returns(This)[1] \notin {0, MinUtility, MaxUtility}
  /\ Returns(This)[2] = -Returns(This)[1]

\* C19: the object Clone() returns equals the original in board, current
\* player, move counter and outcome; a DoApplyAction call on the copy leaves
\* every field of the original as it was, and a call on the original leaves
\* every field of the copy as it was.
C19_CloneIndependent ==
  /\ clone.last = "cloned" =>
        /\ clone.st.board_ = board_
        /\ clone.st.current_player_ = current_player_
        /\ clone.st.num_moves_ = num_moves_
        /\ clone.st.outcome_ = outcome_
  /\ clone.last = "original" => clone.st = clone.other
  /\ clone.last = "clone" => This = clone.other

\* a move was played on the copy after the original had moved on: the two
\* boards differ and each object has its own counter
C19_Witness ==
  /\ clone.last = "clone"
  /\ clone.st.board_ # board_
  /\ clone.st.board_ # clone.other.board_
  /\ clone.st.num_moves_ = ClonePlies
  /\ num_moves_ = 1

\* the board an in-row move is to leave: the run of marbles from start is
\* shifted by one cell, its last marble goes to the Empty cell after the run
\* or is dropped, the rest of the board stays
ShiftedBoard(st, move) ==
  LET n == RunLength(st, move, 0, Marbles)
      cell(k) == LineCell(move.m_start.m_row, move.m_start.m_column, move.m_direction, k)
      idx(k) == cell(k).m_row * kNumCols + cell(k).m_column
  IN  [i \in DOMAIN st.board_ |->
         IF i = idx(0) THEN kEmpty
         ELSE IF \E k \in 1 .. (n - 1) : i = idx(k)
              THEN st.board_[idx((CHOOSE k \in 1 .. (n - 1) : i = idx(k)) - 1)]
         ELSE IF InGrid(cell(n).m_row, cell(n).m_column) /\ i = idx(n)
                   /\ st.board_[i] = kEmpty
              THEN st.board_[idx(n - 1)]
         ELSE st.board_[i]]

\* C21: a legal in-row move shifts the contiguous run of marbles from start
\* by one cell along the direction: start becomes Empty, each further cell
\* of the run takes the content of the cell before it, the Empty cell after
\* the run receives the last marble, a marble whose next cell is Invalid or
\* off the grid is dropped, and every other cell is unchanged.
C21_InRowShift ==
  (input # NoAction /\ LastCall("applied")) =>
     LET move == ActionToMove(input)
     IN  /\ IsInRowMove(move)
         /\ board_ = ShiftedBoard(pre.st, move)

\* three marbles pushed two opposing marbles among other marbles, the front
\* one off the board
C21_Witness ==
  /\ input # NoAction
  /\ LastCall("applied")
  /\ OwnRun(pre.st, ActionToMove(input)) = 3
  /\ OppRun(pre.st, ActionToMove(input)) = 2
  /\ PushedOverRim(pre.st, ActionToMove(input))
  /\ TotalMarbles(board_) > 2 * kInitialMarbles
  /\ board_ = ShiftedBoard(pre.st, ActionToMove(input))

\* the cells of the line of a slide, from start to end
SlideCells(move) ==
  LET n == Max(Abs(move.m_end.m_row - move.m_start.m_row),
               Abs(move.m_end.m_column - move.m_start.m_column))
      sr == Clamp1(move.m_end.m_row - move.m_start.m_row)
      sc == Clamp1(move.m_end.m_column - move.m_start.m_column)
  IN  {Coord(move.m_start.m_row + k * sr, move.m_start.m_column + k * sc) : k \in 0 .. n}

\* a cell translated by the offset of the move direction
Translated(cell, move) ==
  Coord(cell.m_row + Offsets(move.m_direction).m_row,
        cell.m_column + Offsets(move.m_direction).m_column)

\* the board a slide is to leave: the line is Empty, the translated line
\* holds the mover's marbles, the rest of the board stays
SlidBoard(st, move) ==
  LET line == {cell.m_row * kNumCols + cell.m_column : cell \in SlideCells(move)}
      dest == {Translated(cell, move).m_row * kNumCols + Translated(cell, move).m_column :
                 cell \in SlideCells(move)}
  IN  [i \in DOMAIN st.board_ |->
         IF i \in dest THEN OwnCell(st)
         ELSE IF i \in line THEN kEmpty
         ELSE st.board_[i]]

\* C22: a legal slide of a line of N marbles (N = 2 or 3) moves all N: the
\* line is Empty afterwards, the line translated by the offset of the move
\* direction holds the mover's marbles, every other cell is unchanged (so
\* the executor never stops early) and both marble counts are as before.
C22_SlideMovesAll ==
  (input # NoAction /\ LastCall("applied")) =>
     LET move == ActionToMove(input)
     IN  /\ ~IsInRowMove(move)
         /\ Cardinality(SlideCells(move)) = SlideSize(input % kNumActionsPerDirection)
         /\ board_ = SlidBoard(pre.st, move)
         /\ BallCount(board_, kPlayer1) = BallCount(pre.st.board_, kPlayer1)
         /\ BallCount(board_, kPlayer2) = BallCount(pre.st.board_, kPlayer2)

\* a line of three marbles was slid on a board full of opposing marbles
C22_Witness ==
  /\ input # NoAction
  /\ input % kNumActionsPerDirection \in {3, 4}
  /\ LastCall("applied")
  /\ BallCount(board_, OppCell(pre.st)) > kInitialMarbles
  /\ \A cell \in SlideCells(ActionToMove(input)) :
        /\ BoardAt(board_, cell.m_row, cell.m_column) = kEmpty
        /\ BoardAt(board_, Translated(cell, ActionToMove(input)).m_row,
                   Translated(cell, ActionToMove(input)).m_column) = OwnCell(pre.st)

\* start and end are in the grid and start holds the marble of the player
\* to move
StartIsOwn(st, move) ==
  /\ MoveInGrid(move)
  /\ BoardAt(st.board_, move.m_start.m_row, move.m_start.m_column) = OwnCell(st)

\* the cells that hold a marble of cell value marble
CellsOf(b, marble) == {i \in DOMAIN b : b[i] = marble}

\* C23: IsValid is false whenever start or end is outside the 9x9 grid or
\* start does not hold the marble of the player to move; so every id of
\* LegalActions() starts on the mover's marble, and a legal move changes the
\* opponent's cells only as an in-row move with opposing marbles in its run.
C23_StartHoldsMover ==
  ~IsTerminal(This) =>
     LET legal == LegalActions(This)
     IN  /\ \A action \in ActionIds \cup OutOfRangeInputs :
               IsValid(ActionToMove(action), This) => StartIsOwn(This, ActionToMove(action))
         /\ \A action \in UninitInputs : \A move \in ActionToMoveUninit(action) :
               IsValid(move, This) => StartIsOwn(This, move)
         /\ \A i \in 1 .. Len(legal) :
               LET move == ActionToMove(legal[i])
                   post == DoApplyActionResult(This, legal[i])
               IN  /\ StartIsOwn(This, move)
                   /\ CellsOf(post.board_, OppCell(This)) # CellsOf(board_, OppCell(This))
                         => (IsInRowMove(move) /\ OppRun(This, move) >= 1)

\* a step of the played line pushed an opposing marble to another cell
C23_Witness ==
  /\ LastCall("applied")
  /\ pre.st.num_moves_ < Len(CeilingLine)
  /\ This = DoApplyActionResult(pre.st, CeilingLine[pre.st.num_moves_ + 1])
  /\ StartIsOwn(pre.st, ActionToMove(CeilingLine[pre.st.num_moves_ + 1]))
  /\ OppRun(pre.st, ActionToMove(CeilingLine[pre.st.num_moves_ + 1])) >= 1
  /\ CellsOf(board_, OppCell(pre.st)) # CellsOf(pre.st.board_, OppCell(pre.st))
  /\ ~IsTerminal(This)

(***************************************************************************)
(* Move::to_string and Move::from_string.  A std::string is a sequence of  *)
(* character codes; CharA is 'a', Char1 is '1'.                            *)
(***************************************************************************)
CharA == 97
Char1 == 49
CharUpperA == 65
CharUpperZ == 90
\* the longest start-to-end span of a written slide
MaxSpan == 2

\* tolower on one character of the "C" locale
ToLower(ch) == IF ch >= CharUpperA /\ ch <= CharUpperZ THEN ch + (CharA - CharUpperA) ELSE ch

RowChar(row) == CharA + ((kNumRows - 1) - row)
ColChar(column) == Char1 + column

to_string(move) ==
  LET offset == Offsets(move.m_direction)
      vl == move.m_end.m_row - move.m_start.m_row
      vc == move.m_end.m_column - move.m_start.m_column
  IN  IF offset.m_row # vl \/ offset.m_column # vc
      THEN << RowChar(move.m_start.m_row), ColChar(move.m_start.m_column),
              RowChar(move.m_end.m_row), ColChar(move.m_end.m_column),
              RowChar(move.m_start.m_row + offset.m_row),
              ColChar(move.m_start.m_column + offset.m_column) >>
      ELSE << RowChar(move.m_start.m_row), ColChar(move.m_start.m_column),
              RowChar(move.m_end.m_row), ColChar(move.m_end.m_column) >>

\* the k-th cell named by a lowered string: characters 2k-1 and 2k
PointAt(str, k) ==
  Coord((kNumRows - 1) - (str[2 * k - 1] - CharA), str[2 * k] - Char1)

ParseFail == [ok |-> FALSE, move |-> NoMove]
ParseOk(dir, start, end) ==
  [ok |-> TRUE,
   move |-> [m_direction |-> dir, m_start |-> start, m_end |-> end]]

\* the direction whose offset is (vl, vc), Direction_Invalid when none is
DirectionOf(vl, vc) ==
  IF \E dir \in Direction_First .. (Direction_Last - 1) : Offsets(dir) = Coord(vl, vc)
  THEN CHOOSE dir \in Direction_First .. (Direction_Last - 1) : Offsets(dir) = Coord(vl, vc)
  ELSE Direction_Invalid

\* from_string without the exchange of the two line ends
from_string_NoSwap(text) ==
  IF Len(text) # 4 /\ Len(text) # 6 THEN ParseFail
  ELSE
    LET str == [i \in 1..Len(text) |-> ToLower(text[i])]
        start == PointAt(str, 1)
        second == PointAt(str, 2)
    IN  IF ~InGrid(start.m_row, start.m_column) THEN ParseFail
        ELSE IF ~InGrid(second.m_row, second.m_column) THEN ParseFail
        ELSE IF Len(str) = 4
        THEN LET dir == DirectionOf(second.m_row - start.m_row,
                                    second.m_column - start.m_column)
             IN  IF dir # Direction_Invalid THEN ParseOk(dir, start, second)
                 ELSE ParseFail
        ELSE
          LET slide_line == second.m_row - start.m_row
              slide_column == second.m_column - start.m_column
              third == PointAt(str, 3)
              dir == DirectionOf(third.m_row - start.m_row,
                                 third.m_column - start.m_column)
          IN  IF Max(Abs(slide_line), Abs(slide_column)) > MaxSpan THEN ParseFail
              ELSE IF ~InGrid(third.m_row, third.m_column) THEN ParseFail
              ELSE IF dir # Direction_Invalid THEN ParseOk(dir, start, second)
              ELSE ParseFail

from_string(text) ==
  IF Len(text) # 4 /\ Len(text) # 6 THEN ParseFail
  ELSE
    LET str == [i \in 1..Len(text) |-> ToLower(text[i])]
        start == PointAt(str, 1)
        second == PointAt(str, 2)
    IN  IF ~InGrid(start.m_row, start.m_column) THEN ParseFail
        ELSE IF ~InGrid(second.m_row, second.m_column) THEN ParseFail
        ELSE IF Len(str) = 4
        THEN LET dir == DirectionOf(second.m_row - start.m_row,
                                    second.m_column - start.m_column)
             IN  IF dir # Direction_Invalid THEN ParseOk(dir, start, second)
                 ELSE ParseFail
        ELSE
          LET start_slide == second
              slide_line == start_slide.m_row - start.m_row
              slide_column == start_slide.m_column - start.m_column
              slide == Coord(Clamp1(slide_line), Clamp1(slide_column))
              third == PointAt(str, 3)
              dir == DirectionOf(third.m_row - start.m_row,
                                 third.m_column - start.m_column)
          IN  IF Max(Abs(slide_line), Abs(slide_column)) > MaxSpan THEN ParseFail
              ELSE IF ~InGrid(third.m_row, third.m_column) THEN ParseFail
              ELSE IF dir # Direction_Invalid
              THEN IF \/ Offsets(Sisters(dir)[1]) = slide
                      \/ Offsets(Sisters(dir)[2]) = slide
                   THEN ParseOk(dir, start, start_slide)
                   ELSE ParseOk(dir, start_slide, start)
              ELSE ParseFail

(***************************************************************************)
(* SpecParse: the parser on written moves.  Init writes, with to_string,   *)
(* the move of every direction from every grid cell to the cell one, two   *)
(* or three steps away along every direction, in lower or upper case;      *)
(* ParseText                                                               *)
(* applies from_string, Encode applies MoveToAction to the parsed move.    *)
(***************************************************************************)
UpperCase(text) ==
  [i \in 1..Len(text) |->
     IF text[i] >= CharA /\ text[i] <= CharA + (CharUpperZ - CharUpperA)
     THEN text[i] - (CharA - CharUpperA) ELSE text[i]]

InitParse ==
  /\ board_ = BoardOf(ABALONE_INIT_CLASSIC)
  /\ current_player_ = 0
  /\ outcome_ = kInvalidPlayer
  /\ num_moves_ = 0
  /\ fatal = FALSE
  /\ pre = [st |-> MkState(BoardOf(ABALONE_INIT_CLASSIC), 0, kInvalidPlayer, 0),
            branch |-> "none"]
  /\ \E r \in 0..(kNumRows - 1), c \in 0..(kNumCols - 1),
        dir \in Direction_First .. (Direction_Last - 1),
        along \in Direction_First .. (Direction_Last - 1),
        n \in 1..(MaxSpan + 1), upper \in BOOLEAN :
       LET text == to_string(MkMove(dir, r, c,
                                   r + n * Offsets(along).m_row,
                                   c + n * Offsets(along).m_column))
       IN  input = IF upper THEN UpperCase(text) ELSE text
  /\ decoded = NoMove
  /\ encoded = NoAction
  /\ clone = NoClone

ParseText ==
  /\ decoded = NoMove
  /\ from_string(input).ok
  /\ decoded' = from_string(input).move
  /\ UNCHANGED << board_, current_player_, outcome_, num_moves_, fatal, pre,
                  input, encoded, clone >>

NextParse == ParseText \/ Encode

SpecParse == InitParse /\ [][NextParse]_vars

\* a lowered 6-character text names a line of 2 or 3 grid cells along a
\* direction not parallel to the move direction its third point gives
NamesLine(str) ==
  /\ Len(str) = 6
  /\ LET first == PointAt(str, 1)
         second == PointAt(str, 2)
         third == PointAt(str, 3)
         dir == DirectionOf(third.m_row - first.m_row,
                            third.m_column - first.m_column)
     IN  /\ InGrid(first.m_row, first.m_column)
         /\ InGrid(second.m_row, second.m_column)
         /\ dir # Direction_Invalid
         /\ \E along \in Direction_First .. (Direction_Last - 1), n \in 1..MaxSpan :
              /\ along # dir
              /\ along # (dir + 3) % Direction_Last
              /\ second.m_row = first.m_row + n * Offsets(along).m_row
              /\ second.m_column = first.m_column + n * Offsets(along).m_column

\* the cell the first named cell moves to is a cell of the 9x9 grid
TargetInGrid(str) ==
  InGrid(PointAt(str, 3).m_row, PointAt(str, 3).m_column)

\* the text naming the same line and move direction from the other end
OtherEnd(str) ==
  LET first == PointAt(str, 1)
      second == PointAt(str, 2)
      third == PointAt(str, 3)
      dir == DirectionOf(third.m_row - first.m_row,
                         third.m_column - first.m_column)
  IN  to_string([m_direction |-> dir, m_start |-> second, m_end |-> first])

LoweredInput == [i \in 1..Len(input) |-> ToLower(input[i])]

\* both texts parse, to one Move that runs from its start to its end along
\* a sister offset of its direction and whose action id has a slide subtype
\* and decodes back to it
ParsesCanonically(text, other) ==
  LET parsed == from_string(text)
      twin == from_string(other)
      move == parsed.move
      step == Coord(Clamp1(move.m_end.m_row - move.m_start.m_row),
                    Clamp1(move.m_end.m_column - move.m_start.m_column))
  IN  /\ parsed.ok
      /\ twin.ok
      /\ twin.move = move
      /\ \/ step = Offsets(Sisters(move.m_direction)[1])
         \/ step = Offsets(Sisters(move.m_direction)[2])
      /\ MoveToAction(move) % kNumActionsPerDirection \in 1..4
      /\ ActionToMove(MoveToAction(move)) = move

\* C24 as stated: whenever the text names a line of 2 or 3 grid cells along
\* a direction not parallel to the move direction, it and the text naming
\* the line from the other end parse to the same canonical Move.
C24_AsStated ==
  NamesLine(LoweredInput) =>
    ParsesCanonically(input, OtherEnd(LoweredInput))

\* C24: a 6-character text that names a line of 2 or 3 grid cells along a
\* direction not parallel to the move direction parses to the same Move as
\* the text naming the line from the other end, provided the cell each end
\* is shifted to (the third point of either text) lies on the 9x9 grid; the
\* Move runs from its start to its end along one of the two sister offsets
\* of its direction, its action id has a slide subtype 1..4 and decodes back
\* to the Move.  When one of the two third points is off the grid, the text
\* naming it does not parse at all.
C24_SlideEndsCanonical ==
  /\ (/\ NamesLine(LoweredInput)
      /\ TargetInGrid(LoweredInput)
      /\ TargetInGrid(OtherEnd(LoweredInput))) =>
       /\ ParsesCanonically(input, OtherEnd(LoweredInput))
       /\ decoded # NoMove => decoded = from_string(input).move
       /\ encoded # NoAction => encoded = MoveToAction(from_string(input).move)
  /\ (NamesLine(LoweredInput) /\ ~TargetInGrid(LoweredInput)) =>
       ~from_string(input).ok
  /\ (NamesLine(LoweredInput) /\ ~TargetInGrid(OtherEnd(LoweredInput))) =>
       ~from_string(OtherEnd(LoweredInput)).ok

\* a 3-cell line named in upper case from its far end: the parser exchanged
\* the ends, and the id of the parsed move has a two-step slide subtype
C24_Witness ==
  /\ NamesLine(LoweredInput)
  /\ TargetInGrid(LoweredInput)
  /\ TargetInGrid(OtherEnd(LoweredInput))
  /\ decoded # NoMove
  /\ decoded.m_start = PointAt(LoweredInput, 2)
  /\ decoded.m_end = PointAt(LoweredInput, 1)
  /\ encoded # NoAction
  /\ encoded % kNumActionsPerDirection \in 3..4
  /\ input # LoweredInput

(***************************************************************************)
(* Turn order                                                              *)
(***************************************************************************)
\* C25: in every reachable state the stored player to move is the move
\* counter modulo 2; a call that applied a move handed the turn to the other
\* player and counted one move, a forfeiting call left both as they were, so
\* no player applies two moves in a row.
C25_TurnsAlternate ==
  /\ current_player_ = num_moves_ % kNumPlayers
  /\ LastCall("applied") =>
       /\ current_player_ = 1 - pre.st.current_player_
       /\ num_moves_ = pre.st.num_moves_ + 1
       /\ pre.st.current_player_ = pre.st.num_moves_ % kNumPlayers
  /\ LastCall("forfeit") =>
       /\ current_player_ = pre.st.current_player_
       /\ num_moves_ = pre.st.num_moves_

\* player 1 has just applied the second move of a game: player 0 is to move
\* at an even count
C25_Witness ==
  /\ LastCall("applied")
  /\ pre.st.current_player_ = 1
  /\ pre.st.num_moves_ = 1
  /\ current_player_ = 0
  /\ num_moves_ = 2

(***************************************************************************)
(* Marbles a legal move takes off the board.  SpecMoves probes the in-row  *)
(* windows of SpecShift and the slide windows of SpecGlide.                *)
(***************************************************************************)
SpecMoves == (InitShift \/ InitGlide) /\ [][NextProbe]_vars

\* C26: a call that applied a legal move left the mover's marble count as it
\* was and lowered the opponent's count by 0 or 1; the outcome it left is
\* unset or names the mover, never the player who did not move.
C26_LegalMoveCaptures ==
  LastCall("applied") =>
    LET own == OwnCell(pre.st)
        opp == OppCell(pre.st)
        taken == BallCount(pre.st.board_, opp) - BallCount(board_, opp)
    IN  /\ BallCount(board_, own) = BallCount(pre.st.board_, own)
        /\ taken \in {0, 1}
        /\ taken = 1 <=> /\ IsInRowMove(ActionToMove(input))
                          /\ PushedOverRim(pre.st, ActionToMove(input))
        /\ outcome_ \in {kInvalidPlayer, pre.st.current_player_}
        /\ outcome_ # 1 - pre.st.current_player_

\* three marbles pushed two opposing marbles and the far one left the board
C26_Witness ==
  /\ LastCall("applied")
  /\ IsInRowMove(ActionToMove(input))
  /\ OwnRun(pre.st, ActionToMove(input)) = 3
  /\ OppRun(pre.st, ActionToMove(input)) = 2
  /\ BallCount(board_, OppCell(pre.st)) = BallCount(pre.st.board_, OppCell(pre.st)) - 1
  /\ BallCount(board_, OwnCell(pre.st)) = BallCount(pre.st.board_, OwnCell(pre.st))

(***************************************************************************)
(* Marble counts over a game                                               *)
(***************************************************************************)
\* C27: in every state of a game played from the classic layout each player
\* has between kInitialMarbles - kMarblesToWin (8) and kInitialMarbles (14)
\* marbles on the board; while the game is running both have at least 9;
\* the two players never both have 8, and a player has 8 only in a state
\* whose outcome names the other player.
C27_MarbleCountRange ==
  LET ballCount0 == BallCount(board_, kPlayer1)
      ballCount1 == BallCount(board_, kPlayer2)
      floor == kInitialMarbles - kMarblesToWin
  IN  /\ ballCount0 \in floor .. kInitialMarbles
      /\ ballCount1 \in floor .. kInitialMarbles
      /\ ~IsTerminal(This) => (ballCount0 >= floor + 1 /\ ballCount1 >= floor + 1)
      /\ ~(ballCount0 = floor /\ ballCount1 = floor)
      /\ ballCount0 = floor => outcome_ = 1
      /\ ballCount1 = floor => outcome_ = 0

\* the sixth marble of a player has just been pushed off the board: that
\* player has 8 marbles, the other more, and the game is over
C27_Witness ==
  /\ LastCall("applied")
  /\ BallCount(pre.st.board_, OppCell(pre.st)) = kInitialMarbles - kMarblesToWin + 1
  /\ BallCount(board_, OppCell(pre.st)) = kInitialMarbles - kMarblesToWin
  /\ BallCount(board_, OwnCell(pre.st)) > kInitialMarbles - kMarblesToWin
  /\ IsTerminal(This)

(***************************************************************************)
(* One action id per physical move                                         *)
(***************************************************************************)
\* the boards the ids of a LegalActions() result lead to
SuccessorBoards(st, legal) ==
  {Apply(ActionToMove(legal[i]), st.board_) : i \in 1 .. Len(legal)}

\* C28: in every reachable running state the ids of LegalActions() lead to
\* pairwise different boards: there are as many successor boards as ids, no
\* successor board is the current board, and no legal slide has a legal id
\* naming its line from the other end.
C28_OneIdPerMove ==
  ~IsTerminal(This) =>
     LET legal == LegalActions(This)
         boards == SuccessorBoards(This, legal)
     IN  /\ Cardinality(boards) = Len(legal)
         /\ board_ \notin boards
         /\ \A i \in 1 .. Len(legal) :
               LET move == ActionToMove(legal[i])
                   back == [m_direction |-> move.m_direction,
                            m_start |-> move.m_end, m_end |-> move.m_start]
               IN  ~IsInRowMove(move) =>
                     \A j \in 1 .. Len(legal) : ActionToMove(legal[j]) # back

\* a running state after a move in which a three-marble slide and the
\* two-marble slide from the same cell in the same direction are both legal
\* and lead to different boards
C28_Witness ==
  /\ LastCall("applied")
  /\ ~IsTerminal(This)
  /\ \E action \in ActionIds :
        /\ action % kNumActionsPerDirection = 3
        /\ ValidAction(This, action)
        /\ ValidAction(This, action - 2)
        /\ Apply(ActionToMove(action), board_) # Apply(ActionToMove(action - 2), board_)

(***************************************************************************)
(* The slide validator on decoded moves                                    *)
(***************************************************************************)
\* every cell of the line holds the marble of the start cell and has an
\* Empty grid cell one step along the move direction
WalkAccepts(st, move) ==
  \A cell \in SlideCells(move) :
     /\ BoardAt(st.board_, cell.m_row, cell.m_column)
          = BoardAt(st.board_, move.m_start.m_row, move.m_start.m_column)
     /\ InGrid(Translated(cell, move).m_row, Translated(cell, move).m_column)
     /\ BoardAt(st.board_, Translated(cell, move).m_row, Translated(cell, move).m_column)
          = kEmpty

\* the moves of all ids pass the two pre-checks of _IsValidSlide, and size
\* steps of the clamped vector lead from start to end
DecodedPassPreChecks ==
  \A action \in ActionIds :
     LET move == ActionToMove(action)
         rSize == Abs(move.m_end.m_row - move.m_start.m_row) + 1
         cSize == Abs(move.m_end.m_column - move.m_start.m_column) + 1
         slide_line == Clamp1(move.m_end.m_row - move.m_start.m_row)
         slide_column == Clamp1(move.m_end.m_column - move.m_start.m_column)
         size == Max(cSize, rSize)
     IN  /\ rSize <= 3
         /\ cSize <= 3
         /\ SlideValidDirection(slide_line, slide_column)
         /\ move.m_end = Coord(move.m_start.m_row + (size - 1) * slide_line,
                               move.m_start.m_column + (size - 1) * slide_column)
         /\ Cardinality(SlideCells(move)) = size
         /\ action % kNumActionsPerDirection # 0 =>
              /\ ~IsInRowMove(move)
              /\ size = SlideSize(action % kNumActionsPerDirection)

\* C29: for the move of every id in [0, 2430) the row and column spans are at
\* most 3, the clamped start-to-end vector is one of the six offsets and the
\* walk's cells are those from start to end inclusive; so for a decoded slide
\* whose endpoints are in the grid and whose start holds the mover's marble,
\* _IsValidSlide and IsValid answer what the cell walk alone answers, and
\* DoApplyAction applies the slide exactly when the walk accepts.
C29_SlideVerdictIsWalk ==
  /\ DecodedPassPreChecks
  /\ input # NoAction =>
       LET move == ActionToMove(input)
       IN  /\ StartIsOwn(pre.st, move) =>
                /\ IsValidSlide(move, pre.st) <=> WalkAccepts(pre.st, move)
                /\ IsValid(move, pre.st) <=> WalkAccepts(pre.st, move)
           /\ LastCall("applied") => (StartIsOwn(pre.st, move) /\ WalkAccepts(pre.st, move))
           /\ LastCall("forfeit") => ~(StartIsOwn(pre.st, move) /\ WalkAccepts(pre.st, move))

\* a three-marble slide spanning three rows and three columns was applied
C29_Witness ==
  /\ input # NoAction
  /\ LastCall("applied")
  /\ Abs(ActionToMove(input).m_end.m_row - ActionToMove(input).m_start.m_row) = 2
  /\ Abs(ActionToMove(input).m_end.m_column - ActionToMove(input).m_start.m_column) = 2
  /\ WalkAccepts(pre.st, ActionToMove(input))
  /\ board_ # pre.st.board_

====
